---- MODULE Spec2Model ----
(***************************************************************************)
(* A model of md2electraone: the forward conversion generate_preset        *)
(* (main.py), the reconstruction group_controls_by_page (json2md.py) and   *)
(* the table-row parser parse_controls_from_md (mdparser.py), and the way  *)
(* back to a table, generate_markdown and format_choices (json2md.py).     *)
(*                                                                         *)
(* Python values are modelled as follows.  None of a string-typed field is *)
(* the string "None"; an optional integer is a sequence of length 0 or 1;  *)
(* a dict is a record that has exactly the keys the code sets; a dict      *)
(* whose insertion order the code iterates is a sequence of entries.       *)
(***************************************************************************)
EXTENDS Integers, Sequences, FiniteSets, TLC

VARIABLES
    meta,                    \* generate_preset argument: the frontmatter map
    specs,                   \* generate_preset argument `sections`: the ControlSpec list
    verbose,                 \* generate_preset argument: print what is placed
    raised,                  \* the exception generate_preset was left with, None for none
    pc,                      \* position in main.py / json2md.py
    sec_i, chunk_i, spec_i,  \* loop cursors: section, chunk (page) of it, spec of the chunk
    pages, controls, overlays, groups,          \* the preset's arrays
    group_controls, group_defs,                 \* (page, group) -> member ids / (label, color)
    page_id, next_control_id, next_group_id, next_overlay_id,
    position_idx, current_group_name, current_group_remaining,
    grp_i,                   \* cursor of the loop over group_controls.items()
    warnings,                \* labels of the groups a swallowed-control warning was printed for
    emitted_from,            \* history: the ControlSpec control id came from, and its place
    rp_i, rg_i,              \* json2md loop cursors: page of sorted(controls_by_page), group of it
    group_name_usage,        \* get_unique_group_name's counter per base name
    controls_with_bounds,    \* the page's (ctrl_info, bounds, control_id), sorted by (y, x)
    ordered_controls, control_index_map, control_to_group,
    sections,                \* group_controls_by_page's result: (page_name, ordered_controls)
    rows, row_i,             \* parse_controls_from_md: the table's rows (cells as characters), cursor
    current_color,           \* parse_controls_from_md: the colour that persists across rows
    spec_row,                \* history: the row each ControlSpec was parsed from
    md, md_i,                \* generate_markdown: the tables written so far, section cursor
    specs2,                  \* parse_controls_from_md's result on the generated markdown
    choices_arg, minv_arg,   \* format_choices / parse_choices called on their own:
    choices_cell, choices_out \* the arguments, the cell written, the list read back

\* main.py's arguments, locals and result
run_vars == <<meta, verbose, raised, specs, sec_i, chunk_i, spec_i, pages, controls, overlays, groups,
              group_controls, group_defs, page_id, next_control_id, next_group_id,
              next_overlay_id, position_idx, current_group_name, current_group_remaining,
              grp_i, warnings, emitted_from>>

rev_vars == <<rp_i, rg_i, group_name_usage, controls_with_bounds, ordered_controls,
              control_index_map, control_to_group, sections>>

\* mdparser.py's locals, and those of the way back to markdown
parse_vars == <<rows, row_i, current_color, spec_row, md, md_i, specs2,
                choices_arg, minv_arg, choices_cell, choices_out>>

vars == <<pc, run_vars, rev_vars, parse_vars>>

None == "None"

\* The largest number of ControlSpecs in an enumerated input.
MaxSpecs == 4

-----------------------------------------------------------------------------
\* Generic helpers (Python built-ins)

DictGet(d, k, dflt) == IF k \in DOMAIN d THEN d[k] ELSE dflt

Opt(k, present, v) == IF present THEN [x \in {k} |-> v] ELSE [x \in {} |-> v]

SeqMin(s) == CHOOSE m \in {s[i] : i \in DOMAIN s} : \A i \in DOMAIN s : m <= s[i]
SeqMax(s) == CHOOSE m \in {s[i] : i \in DOMAIN s} : \A i \in DOMAIN s : m >= s[i]

-----------------------------------------------------------------------------
\* Layout constants (main.py)

GROUP_LABEL_HEIGHT == 16
GROUP_LABEL_PADDING == 8

compute_grid_bounds(m) ==
    LET electra == DictGet(m, "electra", [x \in {} |-> 0]) IN
    [ screen_w    |-> DictGet(electra, "screen_width_controls",
                              DictGet(electra, "screen_width", 800)),
      cols        |-> DictGet(electra, "cols", 6),
      rows        |-> DictGet(electra, "rows", 6),
      top_offset  |-> DictGet(electra, "top_offset", 28),
      left_offset |-> DictGet(electra, "left_offset", 20),
      xpadding    |-> DictGet(electra, "xpadding", 21),
      ypadding    |-> DictGet(electra, "ypadding", 34),
      cell_w      |-> DictGet(electra, "cell_width", 146),
      cell_h      |-> DictGet(electra, "cell_height", 56) ]

\* bounds_for_index filling the grid column by column
bounds_for_index_by_column(idx, grid) ==
    LET r == idx % grid.rows
        c == idx \div grid.rows
        x == grid.left_offset + c * (grid.cell_w + grid.xpadding)
        y == grid.top_offset + r * (grid.cell_h + grid.ypadding)
    IN  <<x, y, grid.cell_w, grid.cell_h>>

bounds_for_index(idx, grid) ==
    LET r == idx \div grid.cols
        c == idx % grid.cols
        x == grid.left_offset + c * (grid.cell_w + grid.xpadding)
        y == grid.top_offset + r * (grid.cell_h + grid.ypadding)
    IN  <<x, y, grid.cell_w, grid.cell_h>>

-----------------------------------------------------------------------------
\* ControlClassifier (main.py)

\* str.lower().strip() and str.lower() on the strings the inputs are drawn from
lower_strip(s) ==
    CASE s = "On" -> "on"         [] s = "Off" -> "off"
      [] s = " OFF " -> "off"     [] s = "ON" -> "on"
      [] s = "Play" -> "play"     [] s = "Pause" -> "pause"
      [] s = "Enable" -> "enable" [] s = "Disable" -> "disable"
      [] s = "Enabled" -> "enabled" [] s = "Disabled" -> "disabled"
      [] s = "Yes" -> "yes"       [] s = "No" -> "no"
      [] s = "True" -> "true"     [] s = "False" -> "false"
      [] s = "Red" -> "red"       [] s = "Blue" -> "blue"
      [] s = "Auto" -> "auto"
      [] s = "Momentary" -> "momentary" [] s = "Released" -> "released"
      [] s = "ADSR" -> "adsr"     [] s = "ADR" -> "adr"
      [] s = "Adsr" -> "adsr"
      [] OTHER -> s

Truthy(s) == s # None /\ s # ""

on_off_patterns ==
    { {"on", "off"}, {"play", "pause"}, {"enable", "disable"},
      {"enabled", "disabled"}, {"yes", "no"}, {"true", "false"} }

\* a toggle test that takes any two choices
is_toggle_any_two(choices) == Len(choices) = 2

is_toggle(choices) ==
    IF Len(choices) # 2 THEN FALSE
    ELSE {lower_strip(choices[i][2]) : i \in 1..2} \in on_off_patterns

control_type(spec) ==
    IF Truthy(spec.envelope_type) THEN lower_strip(spec.envelope_type)
    ELSE IF spec.choices # <<>> THEN (IF is_toggle(spec.choices) THEN "pad" ELSE "list")
    ELSE "fader"

\* the default mode logic alone, the spec's own mode unread
control_mode_defaults_only(spec, ctype) ==
    IF ctype = "pad" THEN "toggle"
    ELSE IF ctype = "list" THEN "default"
    ELSE IF ctype \in {"adsr", "adr"} THEN "default"
    ELSE "unipolar"

control_mode(spec, ctype) ==
    IF spec.mode # None THEN spec.mode
    ELSE IF ctype = "pad" THEN "toggle"
    ELSE IF ctype = "list" THEN "default"
    ELSE IF ctype \in {"adsr", "adr"} THEN "default"
    ELSE "unipolar"

message_type(spec) ==
    IF spec.msg_type = "N" THEN "nrpn"
    ELSE IF spec.msg_type = "P" THEN "program"
    ELSE IF spec.msg_type = "S" THEN "sysex"
    ELSE IF spec.max_val > 127 THEN "cc14" ELSE "cc7"

\* a 7-bit maximum for every message type
message_max_value_7bit(spec, msg_type) == 127

message_max_value(spec, msg_type) ==
    IF msg_type = "nrpn" THEN 16383
    ELSE IF msg_type = "cc14" THEN 16383
    ELSE IF msg_type = "program" THEN 127
    ELSE 127

-----------------------------------------------------------------------------
\* infer_mode (mdparser.py)

momentary_patterns ==
    { {"momentary", "released"}, {"press", "release"}, {"pressed", "released"},
      {"hold", "release"} }

\* the mode parse_controls_from_md stores in a ControlSpec
infer_mode(minv, maxv, choices) ==
    IF minv < 0 /\ choices = <<>> THEN "bipolar"
    ELSE IF Len(choices) = 2
            /\ {lower_strip(choices[i][2]) : i \in 1..2} \in momentary_patterns
         THEN "momentary"
    ELSE None

-----------------------------------------------------------------------------
\* generate_preset: devices, sections, chunks (main.py)

devices_list(m) ==
    LET midi_meta == DictGet(m, "midi", [x \in {} |-> 0])
        rate == DictGet(midi_meta, "rate", 20)
        devices_config == DictGet(m, "devices", <<>>)
    IN  IF Len(devices_config) > 0
        THEN [idx \in 1..Len(devices_config) |->
                [ id |-> idx,
                  name |-> DictGet(devices_config[idx], "name", "Generic MIDI"),
                  port |-> DictGet(devices_config[idx], "port", 1),
                  channel |-> DictGet(devices_config[idx], "channel", idx),
                  rate |-> DictGet(devices_config[idx], "rate", rate) ]]
        ELSE << [ id |-> 1,
                  name |-> DictGet(m, "name", DictGet(m, "device", "Generic MIDI")),
                  port |-> DictGet(m, "port", DictGet(midi_meta, "port", 1)),
                  channel |-> DictGet(m, "channel", DictGet(midi_meta, "channel", 1)),
                  rate |-> rate ] >>

\* device_index_to_id.get(spec.device_id, 1) if spec.device_id else 1
\* (device_id 0 stands for None: both are falsy)
device_id_for_control(m, spec) ==
    IF spec.device_id # 0 /\ spec.device_id \in 1..Len(devices_list(m))
    THEN devices_list(m)[spec.device_id].id
    ELSE 1

RECURSIVE order_loop(_, _, _)
order_loop(ss, i, acc) ==
    IF i > Len(ss) THEN acc
    ELSE order_loop(ss, i + 1,
            IF \E j \in 1..Len(acc) : acc[j] = ss[i].section THEN acc
            ELSE Append(acc, ss[i].section))

\* `order`: the section titles in order of first appearance
order(ss) == order_loop(ss, 1, <<>>)

\* by_section[title]: the specs of that title, in input order
by_section(ss, title) == SelectSeq(ss, LAMBDA s : s.section = title)

non_group_specs(ss) == SelectSeq(ss, LAMBDA s : ~s.is_group)

RECURSIVE chunk_loop(_, _, _, _, _, _)
chunk_loop(ss, i, chunks, current_chunk, control_count, page_cap) ==
    IF i > Len(ss)
    THEN (IF current_chunk # <<>> THEN Append(chunks, current_chunk) ELSE chunks)
    ELSE IF ss[i].is_group
         THEN chunk_loop(ss, i + 1, chunks, Append(current_chunk, ss[i]),
                         control_count, page_cap)
    ELSE IF control_count >= page_cap
         THEN chunk_loop(ss, i + 1, Append(chunks, current_chunk), <<ss[i]>>, 1, page_cap)
    ELSE chunk_loop(ss, i + 1, chunks, Append(current_chunk, ss[i]),
                    control_count + 1, page_cap)

\* `chunks` without the split into pages
section_chunks_unsplit(ss, page_cap) == <<ss>>

\* `chunks` of one section
section_chunks(ss, page_cap) ==
    IF Len(non_group_specs(ss)) <= page_cap THEN <<ss>>
    ELSE chunk_loop(ss, 1, <<>>, <<>>, 0, page_cap)

grid == compute_grid_bounds(meta)
page_cap == grid.cols * grid.rows
section_title == order(specs)[sec_i]
chunks == section_chunks(by_section(specs, section_title), page_cap)
chunk == chunks[chunk_i]

\* section_title if len(chunks) == 1 else f"{section_title} ({ci}/{len(chunks)})"
page_name(title, ci, n) ==
    IF n = 1 THEN title
    ELSE title \o " (" \o ToString(ci) \o "/" \o ToString(n) \o ")"

-----------------------------------------------------------------------------
\* generate_preset: the body of the loop over a chunk's specs (main.py)

\* an overlay_id_for that finds no key in overlay_key_to_id
overlay_never_known(choices) == FALSE

\* overlay_key_to_id is read off `overlays`: the two are updated together
overlay_known(choices) == \E i \in 1..Len(overlays) : overlays[i].items = choices

overlay_id_for(choices) ==
    IF overlay_known(choices)
    THEN overlays[CHOOSE i \in 1..Len(overlays) : overlays[i].items = choices].id
    ELSE next_overlay_id

overlays_after(choices) ==
    IF overlay_known(choices) THEN overlays
    ELSE Append(overlays, [id |-> next_overlay_id, items |-> choices])

\* envelope components in alphabetical order
envelope_components_sorted(ctype) ==
    IF ctype = "adsr" THEN <<"attack", "decay", "release", "sustain">>
    ELSE <<"attack", "decay", "release">>

\* spec.cc: an int, or a list for envelope rows
cc_value(spec) == IF spec.cc_is_list THEN spec.cc ELSE spec.cc[1]

envelope_components(ctype) ==
    IF ctype = "adsr" THEN <<"attack", "decay", "sustain", "release">>
    ELSE <<"attack", "decay", "release">>

\* message_obj of a list, fader or envelope value
value_message(spec, cc_num) ==
    LET msg_type == message_type(spec)
        msg_max == message_max_value(spec, msg_type)
        base == [deviceId |-> device_id_for_control(meta, spec), type |-> msg_type]
    IN  IF msg_type = "program"
        THEN base @@ [min |-> spec.min_val, max |-> spec.max_val]
        ELSE base @@ [parameterNumber |-> cc_num, min |-> 0, max |-> msg_max]

envelope_control(spec, ctype) ==
    LET components == envelope_components(ctype)
        value_obj(k) ==
            [id |-> components[k], min |-> spec.min_val, max |-> spec.max_val,
             message |-> value_message(spec, spec.cc[k])]
            @@ Opt("defaultValue", spec.default_value # <<>>, spec.default_value[1])
    IN  [ id |-> next_control_id, type |-> ctype, name |-> spec.label,
          bounds |-> bounds_for_index(position_idx, grid), pageId |-> page_id,
          inputs |-> [k \in 1..Len(components) |-> [potId |-> k, valueId |-> components[k]]],
          values |-> [k \in 1..Len(components) |-> value_obj(k)] ]
        @@ Opt("color", spec.color # None, spec.color)

\* vals = sorted((v, lbl) for v, lbl in spec.choices); vals[0][0], vals[1][0]:
\* the smaller and the larger value of the two choices
pad_off_on(spec) ==
    LET a == spec.choices[1][1]
        b == spec.choices[2][1]
    IN  IF a <= b THEN <<a, b>> ELSE <<b, a>>

pad_control(spec, ctype) ==
    LET msg_type == message_type(spec)
        message_obj ==
            [type |-> msg_type, deviceId |-> device_id_for_control(meta, spec),
             offValue |-> pad_off_on(spec)[1], onValue |-> pad_off_on(spec)[2]]
            @@ Opt("parameterNumber", msg_type # "program", cc_value(spec))
    IN  [ id |-> next_control_id, type |-> ctype, name |-> spec.label,
          bounds |-> bounds_for_index(position_idx, grid), pageId |-> page_id,
          values |-> << [id |-> "value", message |-> message_obj] >>,
          mode |-> control_mode(spec, ctype), visible |-> TRUE ]
        @@ Opt("color", spec.color # None, spec.color)

list_fader_control(spec, ctype) ==
    LET val == [id |-> "value", min |-> spec.min_val, max |-> spec.max_val,
                message |-> value_message(spec, cc_value(spec))]
               @@ Opt("defaultValue", spec.default_value # <<>>, spec.default_value[1])
               @@ Opt("overlayId", spec.choices # <<>>, overlay_id_for(spec.choices))
    IN  [ id |-> next_control_id, type |-> ctype, name |-> spec.label,
          bounds |-> bounds_for_index(position_idx, grid), pageId |-> page_id,
          values |-> <<val>>,
          mode |-> control_mode(spec, ctype),
          variant |-> IF ctype = "fader" THEN "thin" ELSE "default" ]
        @@ Opt("color", spec.color # None, spec.color)

\* the assignment with the running span before the explicit group_id
assigned_group_span_first(spec) ==
    IF current_group_remaining > 0 THEN current_group_name
    ELSE IF Truthy(spec.group_id) THEN spec.group_id
    ELSE None

\* "Track group assignment": explicit group_id before the running span
assigned_group(spec) ==
    IF Truthy(spec.group_id) THEN spec.group_id
    ELSE IF current_group_remaining > 0 THEN current_group_name
    ELSE None

remaining_after(spec) ==
    IF ~Truthy(spec.group_id) /\ current_group_remaining > 0
    THEN current_group_remaining - 1
    ELSE current_group_remaining

key_index(dict, key) ==
    IF \E i \in 1..Len(dict) : dict[i].key = key
    THEN CHOOSE i \in 1..Len(dict) : dict[i].key = key
    ELSE 0

group_controls_after(spec) ==
    LET g == assigned_group(spec)
        k == key_index(group_controls, <<page_id, g>>)
    IN  IF ~Truthy(g) THEN group_controls
        ELSE IF k = 0
             THEN Append(group_controls, [key |-> <<page_id, g>>, ids |-> <<next_control_id>>])
        ELSE [group_controls EXCEPT ![k].ids = Append(@, next_control_id)]

\* group_defs[group_key] = (spec.label, spec.color)
group_defs_after(spec) ==
    LET internal_name == IF Truthy(spec.group_id) THEN spec.group_id ELSE spec.label
        key == <<page_id, internal_name>>
        k == key_index(group_defs, key)
        entry == [key |-> key, label |-> spec.label, color |-> spec.color]
    IN  IF k = 0 THEN Append(group_defs, entry) ELSE [group_defs EXCEPT ![k] = entry]

-----------------------------------------------------------------------------
\* generate_preset: the page loop (main.py)

\* pages.append(...) and the per-page counters
StartPage ==
    /\ pc = "page"
    /\ pages' = Append(pages, [id |-> page_id,
                               name |-> page_name(section_title, chunk_i, Len(chunks)),
                               defaultControlSetId |-> 1])
    /\ position_idx' = 0
    /\ current_group_name' = None
    /\ current_group_remaining' = 0
    /\ spec_i' = 1
    /\ pc' = "spec"
    /\ UNCHANGED <<meta, verbose, raised, specs, sec_i, chunk_i, controls, overlays, groups, group_controls,
                   group_defs, page_id, next_control_id, next_group_id, next_overlay_id,
                   grp_i, warnings, emitted_from, rev_vars, parse_vars>>

\* a group definition row: no position consumed
group_row(spec) ==
    /\ group_defs' = group_defs_after(spec)
    /\ IF spec.group_size > 0
       THEN /\ current_group_name' =
                   (IF Truthy(spec.group_id) THEN spec.group_id ELSE spec.label)
            /\ current_group_remaining' = spec.group_size
       ELSE UNCHANGED <<current_group_name, current_group_remaining>>
    /\ UNCHANGED <<controls, overlays, group_controls, next_control_id, next_overlay_id,
                   position_idx, emitted_from>>

\* a blank row, or an envelope row that is skipped: the position is consumed
skip_position ==
    /\ position_idx' = position_idx + 1
    /\ UNCHANGED <<controls, overlays, group_controls, group_defs, next_control_id,
                   next_overlay_id, current_group_name, current_group_remaining,
                   emitted_from>>

place(spec, control_obj, new_overlays) ==
    /\ controls' = Append(controls, control_obj)
    /\ overlays' = new_overlays
    /\ next_overlay_id' = next_overlay_id + (Len(new_overlays) - Len(overlays))
    /\ group_controls' = group_controls_after(spec)
    /\ current_group_remaining' = remaining_after(spec)
    /\ next_control_id' = next_control_id + 1
    /\ position_idx' = position_idx + 1
    /\ emitted_from' = Append(emitted_from, [spec |-> spec, sec |-> sec_i, chunk |-> chunk_i,
                                              at |-> spec_i])
    /\ UNCHANGED <<group_defs, current_group_name>>

envelope_is_valid(spec, ctype) ==
    spec.cc_is_list /\ Len(spec.cc) = Len(envelope_components(ctype))

\* a row that becomes a control: neither a group row, nor a blank row, nor an
\* envelope row that is skipped
is_placed(spec) ==
    /\ ~spec.is_group
    /\ ~spec.is_blank
    /\ control_type(spec) \in {"adsr", "adr"} => envelope_is_valid(spec, control_type(spec))

\* the exception the loop body is left with on this row, None for none:
\* bounds_for_index divides by grid["cols"], and the print under `if verbose:`
\* reads the name next_id, which nothing in main.py assigns
raises(spec) ==
    IF ~is_placed(spec) THEN None
    ELSE IF grid.cols = 0 THEN "ZeroDivisionError"
    ELSE IF verbose THEN "NameError"
    ELSE None

ProcessSpec ==
    /\ pc = "spec"
    /\ spec_i <= Len(chunk)
    /\ raises(chunk[spec_i]) = None
    /\ LET spec == chunk[spec_i]
           ctype == control_type(spec)
       IN  IF spec.is_group THEN group_row(spec)
           ELSE IF spec.is_blank THEN skip_position
           ELSE IF ctype \in {"adsr", "adr"}
                THEN IF envelope_is_valid(spec, ctype)
                     THEN place(spec, envelope_control(spec, ctype), overlays)
                     ELSE skip_position
           ELSE IF ctype = "pad"
                THEN place(spec, pad_control(spec, ctype), overlays)
           ELSE place(spec, list_fader_control(spec, ctype),
                      IF spec.choices # <<>> THEN overlays_after(spec.choices) ELSE overlays)
    /\ spec_i' = spec_i + 1
    /\ UNCHANGED <<meta, verbose, raised, specs, pc, sec_i, chunk_i, pages, groups, page_id, next_group_id,
                   grp_i, warnings, rev_vars, parse_vars>>

\* the exception propagates out of generate_preset: no preset is returned
RaiseInSpec ==
    /\ pc = "spec"
    /\ spec_i <= Len(chunk)
    /\ raises(chunk[spec_i]) # None
    /\ raised' = raises(chunk[spec_i])
    /\ pc' = "raised"
    /\ UNCHANGED <<meta, verbose, specs, sec_i, chunk_i, spec_i, pages, controls, overlays,
                   groups, group_controls, group_defs, page_id, next_control_id,
                   next_group_id, next_overlay_id, position_idx, current_group_name,
                   current_group_remaining, grp_i, warnings, emitted_from, rev_vars,
                   parse_vars>>

\* the end of a chunk: page_id += 1, then the next chunk, the next section or
\* the loop over group_controls
EndPage ==
    /\ pc = "spec"
    /\ spec_i > Len(chunk)
    /\ page_id' = page_id + 1
    /\ IF chunk_i < Len(chunks)
       THEN /\ chunk_i' = chunk_i + 1 /\ sec_i' = sec_i /\ pc' = "page"
       ELSE IF sec_i < Len(order(specs))
       THEN /\ chunk_i' = 1 /\ sec_i' = sec_i + 1 /\ pc' = "page"
       ELSE /\ pc' = "groups" /\ UNCHANGED <<chunk_i, sec_i>>
    /\ UNCHANGED <<meta, verbose, raised, specs, spec_i, pages, controls, overlays, groups, group_controls,
                   group_defs, next_control_id, next_group_id, next_overlay_id,
                   position_idx, current_group_name, current_group_remaining, grp_i,
                   warnings, emitted_from, rev_vars, parse_vars>>

-----------------------------------------------------------------------------
\* generate_preset: the loop over group_controls.items() (main.py)

control_by_id(id) == controls[CHOOSE i \in 1..Len(controls) : controls[i].id = id]

\* c["id"] in control_ids
InSeq(x, s) == \E i \in 1..Len(s) : s[i] = x

group_bounds_of(control_ids) ==
    LET objs  == SelectSeq(controls, LAMBDA c : InSeq(c.id, control_ids))
        min_x == SeqMin([i \in 1..Len(objs) |-> objs[i].bounds[1]])
        min_y == SeqMin([i \in 1..Len(objs) |-> objs[i].bounds[2]])
        max_x == SeqMax([i \in 1..Len(objs) |-> objs[i].bounds[1] + objs[i].bounds[3]])
        max_y == SeqMax([i \in 1..Len(objs) |-> objs[i].bounds[2] + objs[i].bounds[4]])
        group_x == min_x - 6
        group_y == min_y - 22
        group_w == (max_x - min_x) + 12
        group_h == 16
    IN  <<group_x, group_y, group_w, group_h>>

\* the names of the controls of the page that lie inside the box without being members
swallowed_controls(page, control_ids, b) ==
    SelectSeq(controls, LAMBDA c :
        /\ c.pageId = page
        /\ ~InSeq(c.id, control_ids)
        /\ c.bounds[1] >= b[1]
        /\ c.bounds[1] + c.bounds[3] <= b[1] + b[3]
        /\ c.bounds[2] >= b[2]
        /\ c.bounds[2] + c.bounds[4] <= b[2] + b[4])

BuildGroup ==
    /\ pc = "groups"
    /\ grp_i <= Len(group_controls)
    /\ LET group_key == group_controls[grp_i].key
           control_ids == group_controls[grp_i].ids
           k == key_index(group_defs, group_key)
           group_label == IF k # 0 THEN group_defs[k].label ELSE group_key[2]
           group_color == IF k # 0 THEN group_defs[k].color ELSE None
           group_bounds == group_bounds_of(control_ids)
           group_variant == DictGet(meta, "groups", None)
           group_obj == [id |-> next_group_id, pageId |-> group_key[1],
                         name |-> group_label, bounds |-> group_bounds]
                        @@ Opt("color", Truthy(group_color), group_color)
                        @@ Opt("variant", Truthy(group_variant), group_variant)
       IN  /\ groups' = Append(groups, group_obj)
           /\ warnings' = IF swallowed_controls(group_key[1], control_ids, group_bounds) # <<>>
                          THEN Append(warnings, group_label) ELSE warnings
    /\ next_group_id' = next_group_id + 1
    /\ grp_i' = grp_i + 1
    /\ UNCHANGED <<meta, verbose, raised, specs, pc, sec_i, chunk_i, spec_i, pages, controls, overlays,
                   group_controls, group_defs, page_id, next_control_id, next_overlay_id,
                   position_idx, current_group_name, current_group_remaining, emitted_from,
                   rev_vars, parse_vars>>

\* return preset
EmitPreset ==
    /\ pc = "groups"
    /\ grp_i > Len(group_controls)
    /\ pc' = "preset"
    /\ UNCHANGED <<meta, verbose, raised, specs, sec_i, chunk_i, spec_i, pages, controls, overlays, groups,
                   group_controls, group_defs, page_id, next_control_id, next_group_id,
                   next_overlay_id, position_idx, current_group_name,
                   current_group_remaining, grp_i, warnings, emitted_from, rev_vars, parse_vars>>

-----------------------------------------------------------------------------
\* json2md.py: build_overlay_map, extract_control_info
\* (info["cc"] and info["default_value"] are optional values: <<>> is None)

str_upper(s) == CASE s = "adsr" -> "ADSR" [] s = "adr" -> "ADR" [] OTHER -> s

\* overlay_map.get(overlay_id): the choices of the overlay, <<>> when there is none
overlay_choices(overlay_id) ==
    IF \E i \in 1..Len(overlays) : overlays[i].id = overlay_id
    THEN overlays[CHOOSE i \in 1..Len(overlays) : overlays[i].id = overlay_id].items
    ELSE <<>>

overlay_in_map(value) ==
    /\ "overlayId" \in DOMAIN value
    /\ \E i \in 1..Len(overlays) : overlays[i].id = value.overlayId

pad_default_choices(mode, off_val, on_val) ==
    IF mode = "momentary" THEN << <<off_val, "Released">>, <<on_val, "Momentary">> >>
    ELSE << <<off_val, "Off">>, <<on_val, "On">> >>

extract_control_info(control) ==
    LET info == [ label |-> control.name, cc |-> <<>>,
                  device_id |-> 0, min_val |-> None, max_val |-> None, choices |-> <<>>,
                  type |-> DictGet(control, "type", "fader"),
                  color |-> DictGet(control, "color", None),
                  envelope_type |-> None, default_value |-> <<>>,
                  mode |-> DictGet(control, "mode", None) ]
        values == DictGet(control, "values", <<>>)
        value == values[1]
        message == value.message
        with_param == SelectSeq(values, LAMBDA v : "parameterNumber" \in DOMAIN v.message)
        cc_list == [k \in 1..Len(with_param) |-> with_param[k].message.parameterNumber]
        dflt(v) == IF "defaultValue" \in DOMAIN v THEN <<v.defaultValue>> ELSE <<>>
        single_cc == IF "parameterNumber" \in DOMAIN message
                     THEN <<message.parameterNumber>> ELSE <<>>
        off_val == DictGet(message, "offValue", 0)
        on_val == DictGet(message, "onValue", 127)
    IN  IF values = <<>> THEN info
        ELSE IF info.type \in {"adsr", "adr"}
        THEN IF cc_list # <<>>
             THEN [info EXCEPT !.cc = <<cc_list>>,
                               !.device_id = values[1].message.deviceId,
                               !.min_val = DictGet(values[1], "min", 0),
                               !.max_val = DictGet(values[1], "max", 127),
                               !.default_value = dflt(values[1]),
                               !.envelope_type = str_upper(info.type)]
             ELSE info
        ELSE IF info.type = "pad"
        THEN [info EXCEPT !.cc = single_cc,
                          !.device_id = message.deviceId,
                          !.choices = IF overlay_in_map(value)
                                         /\ Len(overlay_choices(value.overlayId)) = 2
                                      THEN overlay_choices(value.overlayId)
                                      ELSE pad_default_choices(info.mode, off_val, on_val),
                          !.min_val = IF off_val <= on_val THEN off_val ELSE on_val,
                          !.max_val = IF off_val <= on_val THEN on_val ELSE off_val]
        ELSE [info EXCEPT !.cc = single_cc,
                          !.device_id = message.deviceId,
                          !.min_val = DictGet(value, "min", 0),
                          !.max_val = DictGet(value, "max", 127),
                          !.default_value = dflt(value),
                          !.choices = IF overlay_in_map(value)
                                      THEN overlay_choices(value.overlayId) ELSE <<>>]

-----------------------------------------------------------------------------
\* json2md.py: group_controls_by_page

\* groups_by_page[page]: the groups of the page, in the preset's order
groups_by_page(page) == SelectSeq(groups, LAMBDA g : g.pageId = page)

\* group_name_counts[name]
group_name_counts(name) == Cardinality({i \in 1..Len(groups) : groups[i].name = name})

\* sorted(controls_by_page.keys())
RECURSIVE sorted_set(_)
sorted_set(S) ==
    IF S = {} THEN <<>>
    ELSE LET m == CHOOSE x \in S : \A y \in S : x <= y
         IN  <<m>> \o sorted_set(S \ {m})

rev_page_ids == sorted_set({controls[i].pageId : i \in 1..Len(controls)})

pages_map(page) ==
    IF \E i \in 1..Len(pages) : pages[i].id = page
    THEN pages[CHOOSE i \in 1..Len(pages) : pages[i].id = page].name
    ELSE "Page " \o ToString(page)

\* list.sort(key=(y, x)): stable
yx_le(a, b) == a[2] < b[2] \/ (a[2] = b[2] /\ a[1] <= b[1])

RECURSIVE sort_insert(_, _)
sort_insert(sorted, item) ==
    IF sorted = <<>> THEN <<item>>
    ELSE IF yx_le(sorted[Len(sorted)].bounds, item.bounds) THEN Append(sorted, item)
    ELSE Append(sort_insert(SubSeq(sorted, 1, Len(sorted) - 1), item), sorted[Len(sorted)])

RECURSIVE sort_by_position(_, _, _)
sort_by_position(items, i, acc) ==
    IF i > Len(items) THEN acc
    ELSE sort_by_position(items, i + 1, sort_insert(acc, items[i]))

\* controls_by_page[page], sorted
page_controls_sorted(page) ==
    LET on_page == SelectSeq(controls, LAMBDA c : c.pageId = page)
        items == [k \in 1..Len(on_page) |->
                    [ info |-> extract_control_info(on_page[k]) @@ [_bounds |-> on_page[k].bounds],
                      bounds |-> on_page[k].bounds,
                      id |-> on_page[k].id ]]
    IN  sort_by_position(items, 1, <<>>)

\* chr(ord('A') + count - 1)
suffix_letter(count) ==
    CASE count = 1 -> "A" [] count = 2 -> "B" [] count = 3 -> "C" [] count = 4 -> "D"
      [] count = 5 -> "E" [] count = 6 -> "F" [] OTHER -> "G"

usage_of(base_name) == DictGet(group_name_usage, base_name, 0)

\* the group name as it stands, whatever its occurrences
group_name_unsuffixed(base_name) == base_name

get_unique_group_name(base_name) ==
    IF group_name_counts(base_name) <= 1 THEN base_name
    ELSE IF usage_of(base_name) = 0 THEN base_name
    ELSE base_name \o " " \o suffix_letter(usage_of(base_name))

group_name_usage_after(base_name) ==
    IF group_name_counts(base_name) <= 1 THEN group_name_usage
    ELSE [n \in DOMAIN group_name_usage \cup {base_name} |-> IF n = base_name
                                                            THEN usage_of(base_name) + 1
                                                            ELSE group_name_usage[n]]

\* the indices of the controls the group box claims
matching_controls(group_bounds) ==
    LET group_x == group_bounds[1]
        group_y == group_bounds[2]
        group_w == group_bounds[3]
        group_h == group_bounds[4]
        is_header_only == group_h <= 20
    IN  { i \in 1..Len(controls_with_bounds) :
            LET b == controls_with_bounds[i].bounds IN
            IF is_header_only
            THEN /\ b[1] >= group_x
                 /\ b[1] + b[3] <= group_x + group_w + 20
                 /\ b[2] > group_y
                 /\ b[2] < group_y + 100
            ELSE /\ b[1] >= group_x
                 /\ b[1] + b[3] <= group_x + group_w
                 /\ b[2] >= group_y
                 /\ b[2] + b[4] <= group_y + group_h }

\* the candidates without the restriction to their top row
whole_box(matching) == matching

top_row_indices(matching) ==
    LET min_y == CHOOSE y \in {controls_with_bounds[i].bounds[2] : i \in matching} :
                    \A i \in matching : y <= controls_with_bounds[i].bounds[2]
    IN  {i \in matching : controls_with_bounds[i].bounds[2] = min_y}

is_contiguous_in_row(matching) ==
    LET top == top_row_indices(matching)
        all_in_top_row == Cardinality(matching) = Cardinality(top)
        sorted_indices == sorted_set(top)
        consecutive_in_list ==
            \A k \in 1..(Len(sorted_indices) - 1) : sorted_indices[k] + 1 = sorted_indices[k + 1]
        min_y == controls_with_bounds[sorted_indices[1]].bounds[2]
        all_controls_in_row ==
            sorted_set({i \in 1..Len(controls_with_bounds) :
                            controls_with_bounds[i].bounds[2] = min_y})
        min_idx == sorted_indices[1]
        max_idx == sorted_indices[Len(sorted_indices)]
    IN  IF all_in_top_row /\ top # {}
        THEN IF consecutive_in_list /\ sorted_indices = all_controls_in_row THEN TRUE
             ELSE IF consecutive_in_list THEN (min_idx..max_idx) = top
             ELSE FALSE
        ELSE FALSE

\* list.insert(pos, x), 1-based
seq_insert(s, pos, x) == SubSeq(s, 1, pos - 1) \o <<x>> \o SubSeq(s, pos, Len(s))


cur_page == rev_page_ids[rp_i]
page_groups == groups_by_page(cur_page)

\* group_controls_by_page up to the loop over the pages
GroupControlsByPage ==
    /\ pc = "preset"
    /\ rp_i' = 1
    /\ group_name_usage' = [n \in {} |-> 0]
    /\ sections' = <<>>
    /\ pc' = IF rev_page_ids = <<>> THEN "grouped" ELSE "revpage"
    /\ UNCHANGED <<parse_vars, run_vars, rg_i, controls_with_bounds, ordered_controls,
                   control_index_map, control_to_group>>

\* one page: sort its controls, start ordered_controls
RevPageStart ==
    /\ pc = "revpage"
    /\ controls_with_bounds' = page_controls_sorted(cur_page)
    /\ ordered_controls' = [i \in 1..Len(controls_with_bounds') |->
                               controls_with_bounds'[i].info]
    /\ control_index_map' = [i \in 1..Len(controls_with_bounds') |-> i]
    /\ control_to_group' = [i \in {} |-> ""]
    /\ rg_i' = 1
    /\ pc' = "revgroup"
    /\ UNCHANGED <<parse_vars, run_vars, rp_i, group_name_usage, sections>>

\* one group of the page: its candidates, then a span row or explicit tags
RevGroup ==
    /\ pc = "revgroup"
    /\ rg_i <= Len(page_groups)
    /\ LET group == page_groups[rg_i]
           group_bounds == group.bounds
           base_group_name == group.name
           group_name == get_unique_group_name(base_group_name)
           matching == matching_controls(group_bounds)
           span == is_contiguous_in_row(matching)
                   /\ Cardinality(matching) = Cardinality(top_row_indices(matching))
           first_control_idx == CHOOSE i \in matching : \A j \in matching : i <= j
           insert_position == control_index_map[first_control_idx]
           group_def == [ is_group |-> TRUE, label |-> group_name,
                          group_size |-> IF span THEN Cardinality(top_row_indices(matching))
                                         ELSE 0,
                          color |-> DictGet(group, "color", None),
                          _bounds |-> group_bounds ]
       IN  /\ group_name_usage' = group_name_usage_after(base_group_name)
           /\ IF matching = {}
              THEN UNCHANGED <<ordered_controls, control_index_map, control_to_group>>
              ELSE /\ ordered_controls' = seq_insert(ordered_controls, insert_position, group_def)
                   /\ control_index_map' =
                         [i \in DOMAIN control_index_map |->
                             IF control_index_map[i] >= insert_position
                             THEN control_index_map[i] + 1 ELSE control_index_map[i]]
                   /\ control_to_group' =
                         IF span THEN control_to_group
                         ELSE [i \in DOMAIN control_to_group \cup matching |->
                                 IF i \in matching THEN group_name ELSE control_to_group[i]]
    /\ rg_i' = rg_i + 1
    /\ UNCHANGED <<parse_vars, run_vars, pc, rp_i, controls_with_bounds, sections>>

\* ctrl_obj["group_id"] = group_name for the tagged controls; the dicts of
\* ordered_controls are those of controls_with_bounds, found through
\* control_index_map
tagged_controls ==
    [p \in 1..Len(ordered_controls) |->
        IF \E i \in DOMAIN control_to_group : control_index_map[i] = p
        THEN [group_id |-> control_to_group[CHOOSE i \in DOMAIN control_to_group :
                                                control_index_map[i] = p]]
             @@ ordered_controls[p]
        ELSE ordered_controls[p]]

RevPageEnd ==
    /\ pc = "revgroup"
    /\ rg_i > Len(page_groups)
    /\ sections' = Append(sections, [name |-> pages_map(cur_page),
                                     controls |-> tagged_controls])
    /\ rp_i' = rp_i + 1
    /\ pc' = IF rp_i < Len(rev_page_ids) THEN "revpage" ELSE "grouped"
    /\ UNCHANGED <<parse_vars, run_vars, rg_i, group_name_usage, controls_with_bounds,
                   ordered_controls, control_index_map, control_to_group>>

\* convert_json_to_markdown: preset = json.load(f), a preset that
\* generate_preset need not have written
hand_control(id, b) ==
    [ id |-> id, type |-> "fader", name |-> "c", bounds |-> b, pageId |-> 1,
      values |-> << [ id |-> "value", min |-> 0, max |-> 127,
                      message |-> [ type |-> "cc7", deviceId |-> 1, parameterNumber |-> 10,
                                    min |-> 0, max |-> 127 ] ] >>,
      mode |-> "unipolar", variant |-> "thin" ]

hand_group(id, g) == [id |-> id, pageId |-> 1, name |-> g.name, bounds |-> g.bounds]

hand_preset(boxes, gs) ==
    [ pages    |-> << [id |-> 1, name |-> "S", defaultControlSetId |-> 1] >>,
      controls |-> [k \in 1..Len(boxes) |-> hand_control(k, boxes[k])],
      groups   |-> [k \in 1..Len(gs) |-> hand_group(999 + k, gs[k])] ]

-----------------------------------------------------------------------------
\* mdutils.py and mdparser.py: a table cell is the sequence of its characters

DigitSeq == <<"0", "1", "2", "3", "4", "5", "6", "7", "8", "9">>
UpperSeq == <<"A", "B", "C", "D", "E", "F", "G", "H", "I", "J", "K", "L", "M",
              "N", "O", "P", "Q", "R", "S", "T", "U", "V", "W", "X", "Y", "Z">>
LowerSeq == <<"a", "b", "c", "d", "e", "f", "g", "h", "i", "j", "k", "l", "m",
              "n", "o", "p", "q", "r", "s", "t", "u", "v", "w", "x", "y", "z">>

index_in(seq, c) == CHOOSE i \in 1..Len(seq) : seq[i] = c
is_digit(c) == InSeq(c, DigitSeq)
is_upper(c) == InSeq(c, UpperSeq)
is_lower(c) == InSeq(c, LowerSeq)
is_alpha(c) == is_upper(c) \/ is_lower(c)
is_hex_digit(c) == is_digit(c) \/ InSeq(c, <<"A", "B", "C", "D", "E", "F">>)
                              \/ InSeq(c, <<"a", "b", "c", "d", "e", "f">>)

\* str.upper(), str.lower()
char_upper(c) == IF is_lower(c) THEN UpperSeq[index_in(LowerSeq, c)] ELSE c
char_lower(c) == IF is_upper(c) THEN LowerSeq[index_in(UpperSeq, c)] ELSE c
chars_upper(cs) == [i \in 1..Len(cs) |-> char_upper(cs[i])]
chars_lower(cs) == [i \in 1..Len(cs) |-> char_lower(cs[i])]

\* the str of a character sequence
RECURSIVE join(_)
join(cs) == IF cs = <<>> THEN "" ELSE cs[1] \o join(Tail(cs))

\* the characters of a str, for the strs the inputs are made of: the labels,
\* the names of the groups, the colours and the kinds of envelope
Texts ==
    {
      <<>>, <<"c">>, <<"r">>, <<"b">>, <<"x">>, <<"g">>, <<"h">>, <<"G">>, <<"H">>,
      <<"F", "4", "5", "C", "5", "1">>, <<"5", "2", "9", "D", "E", "C">>,
      <<"C", "u", "t">>, <<"R", "e", "s">>, <<"S", "w">>, <<"M", "u">>,
      <<"W", "a", "v", "e">>, <<"E", "n", "v">>, <<"O", "S", "C">>, <<"o", "s", "c">>,
      <<"O", "f", "f">>, <<"O", "n">>, <<"A", "u", "t", "o">>, <<"S", "a", "w">>,
      <<"T", "r", "i">>, <<"S", "q">>, <<"1", ":", "1">>, <<"2", ":", "1">>,
      <<"O", "s", "c", " ", "(", "2", ")">>, <<"A", "D", "S", "R">>, <<"A", "D", "R">>,
      <<"1">>, <<"O", "s", "c">>, <<"R", "e", "l", "e", "a", "s", "e", "d">>,
      <<"M", "o", "m", "e", "n", "t", "a", "r", "y">>,
      <<"O", "S", "C", " ", "A">>, <<"O", "S", "C", " ", "B">>,
      <<"o", "s", "c", " ", "A">>, <<"o", "s", "c", " ", "B">>,
      <<"N", "r">>, <<"I", "n", "v">>, <<"A", "+", "B">> }

chars_of(s) == CHOOSE cs \in Texts : join(cs) = s

\* the leading and trailing runs of one character removed
RECURSIVE lstrip_char(_, _)
lstrip_char(cs, ch) ==
    IF cs # <<>> /\ cs[1] = ch THEN lstrip_char(Tail(cs), ch) ELSE cs

RECURSIVE rstrip_char(_, _)
rstrip_char(cs, ch) ==
    IF cs # <<>> /\ cs[Len(cs)] = ch THEN rstrip_char(SubSeq(cs, 1, Len(cs) - 1), ch)
    ELSE cs

\* str.strip()
strip(cs) == rstrip_char(lstrip_char(cs, " "), " ")

\* mdutils.clean_cell: strip, then the markdown wrappers off both ends: the
\* asterisks, then the backquotes, which no cell of the tables here holds
clean_cell(cs) ==
    LET a == strip(cs)
    IN  strip(rstrip_char(lstrip_char(a, "*"), "*"))

\* mdutils.pick on a row of the table | CC | Label | Range | Choices | Color |
pick(row, key) == clean_cell(row[key])

all_digits(cs) == cs # <<>> /\ \A i \in 1..Len(cs) : is_digit(cs[i])

\* int(s) and int(s, 16)
RECURSIVE dec_value(_)
dec_value(cs) ==
    IF cs = <<>> THEN 0
    ELSE dec_value(SubSeq(cs, 1, Len(cs) - 1)) * 10 + (index_in(DigitSeq, cs[Len(cs)]) - 1)

hex_digit_value(c) ==
    IF is_digit(c) THEN index_in(DigitSeq, c) - 1
    ELSE index_in(<<"A", "B", "C", "D", "E", "F">>, char_upper(c)) + 9

RECURSIVE hex_value(_)
hex_value(cs) ==
    IF cs = <<>> THEN 0
    ELSE hex_value(SubSeq(cs, 1, Len(cs) - 1)) * 16 + hex_digit_value(cs[Len(cs)])

\* -?\d+
is_signed_int(cs) ==
    all_digits(cs) \/ (cs # <<>> /\ cs[1] = "-" /\ all_digits(Tail(cs)))

signed_value(cs) == IF cs[1] = "-" THEN 0 - dec_value(Tail(cs)) ELSE dec_value(cs)

\* parse_cc's reading of one number: ^(0x)?([0-9A-Fa-f]{1,2})$ with a 0x or a
\* letter is hexadecimal, ^\d+$ is decimal, anything else is None (<<>>)
number_of(s) ==
    LET has0x == Len(s) >= 2 /\ s[1] = "0" /\ s[2] = "x"
        hexok(b) == Len(b) \in {1, 2} /\ \A i \in 1..Len(b) : is_hex_digit(b[i])
    IN  IF has0x /\ hexok(SubSeq(s, 3, Len(s))) THEN <<hex_value(SubSeq(s, 3, Len(s)))>>
        ELSE IF hexok(s) /\ \E i \in 1..Len(s) : is_alpha(s[i]) THEN <<hex_value(s)>>
        ELSE IF all_digits(s) THEN <<dec_value(s)>>
        ELSE <<>>

\* s.split(",")
RECURSIVE split_commas(_, _, _)
split_commas(cs, i, cur) ==
    IF i > Len(cs) THEN <<cur>>
    ELSE IF cs[i] = "," THEN <<cur>> \o split_commas(cs, i + 1, <<>>)
    ELSE split_commas(cs, i + 1, Append(cur, cs[i]))

leading_digits(cs) ==
    Cardinality({n \in 1..Len(cs) : \A i \in 1..n : is_digit(cs[i])})

\* parse_cc: (msg_type, cc_value, device_id); cc None is <<>>, an int <<n>>,
\* device_id None is 0
parse_cc(cell) ==
    LET s0 == clean_cell(cell)
        nd == leading_digits(s0)
        has_dev == nd >= 1 /\ Len(s0) >= nd + 2 /\ s0[nd + 1] = ":"
        device_id == IF has_dev THEN dec_value(SubSeq(s0, 1, nd)) ELSE 0
        s1 == IF has_dev THEN strip(SubSeq(s0, nd + 2, Len(s0))) ELSE s0
        has_prefix == Len(s1) >= 2 /\ InSeq(s1[1], <<"C", "N", "S", "c", "n", "s">>)
        msg_type == IF has_prefix THEN char_upper(s1[1]) ELSE "C"
        s2 == IF has_prefix THEN strip(SubSeq(s1, 2, Len(s1))) ELSE s1
        parts == split_commas(s2, 1, <<>>)
        ccs == [k \in 1..Len(parts) |-> number_of(strip(parts[k]))]
    IN  IF s0 = <<>>
        THEN [msg_type |-> "C", cc |-> <<>>, cc_is_list |-> FALSE, device_id |-> 0]
        ELSE IF InSeq(",", s2)
        THEN IF \A k \in 1..Len(ccs) : ccs[k] # <<>>
             THEN [msg_type |-> msg_type, cc |-> [k \in 1..Len(ccs) |-> ccs[k][1]],
                   cc_is_list |-> TRUE, device_id |-> device_id]
             ELSE [msg_type |-> msg_type, cc |-> <<>>, cc_is_list |-> FALSE,
                   device_id |-> device_id]
        ELSE [msg_type |-> msg_type, cc |-> number_of(s2), cc_is_list |-> FALSE,
              device_id |-> device_id]

\* parse_range: (min_val, max_val, default_value), the default None as <<>>
parse_range(cell) ==
    LET s0 == clean_cell(cell)
        opens == {i \in 1..Len(s0) : s0[i] = "("}
        p == IF opens = {} THEN 0 ELSE CHOOSE i \in opens : \A j \in opens : j <= i
        inner == IF p = 0 THEN <<>> ELSE strip(SubSeq(s0, p + 1, Len(s0) - 1))
        has_default == p >= 2 /\ s0[Len(s0)] = ")" /\ is_signed_int(inner)
        default_val == IF has_default THEN <<signed_value(inner)>> ELSE <<>>
        s == IF has_default THEN strip(SubSeq(s0, 1, p - 1)) ELSE s0
        neg == s # <<>> /\ s[1] = "-"
        body == IF neg THEN Tail(s) ELSE s
        nd == leading_digits(body)
        first == SubSeq(s, 1, nd + (IF neg THEN 1 ELSE 0))
        rest == lstrip_char(SubSeq(body, nd + 1, Len(body)), " ")
        second == IF rest = <<>> THEN <<>> ELSE lstrip_char(Tail(rest), " ")
    IN  IF nd >= 1 /\ rest # <<>> /\ rest[1] = "-" /\ is_signed_int(second)
        THEN <<signed_value(first), signed_value(second), default_val>>
        ELSE IF is_signed_int(s) THEN <<signed_value(s), signed_value(s), default_val>>
        ELSE <<0, 127, default_val>>

\* parse_color: six hex digits, an optional leading #, upper-cased; else None
parse_color(cell) ==
    LET s0 == clean_cell(cell)
        s == IF s0 # <<>> /\ s0[1] = "#" THEN Tail(s0) ELSE s0
    IN  IF Len(s) = 6 /\ \A i \in 1..6 : is_hex_digit(s[i]) THEN join(chars_upper(s))
        ELSE None

\* ^[A-Za-z_][A-Za-z0-9_ ]*$
is_identifier(cs) ==
    /\ cs # <<>>
    /\ is_alpha(cs[1]) \/ cs[1] = "_"
    /\ \A i \in 2..Len(cs) : is_alpha(cs[i]) \/ is_digit(cs[i]) \/ cs[i] = "_" \/ cs[i] = " "

\* the group name and display label of a row, both "" when the row is no
\* group definition row
group_row_names(row) ==
    LET cc_clean == strip(pick(row, "CC"))
        label == pick(row, "Label")
    IN  IF cc_clean = <<>> THEN <<"", "">>
        ELSE IF chars_lower(cc_clean) = <<"g", "r", "o", "u", "p">>
        THEN <<join(label), join(label)>>
        ELSE IF is_identifier(cc_clean) THEN <<join(cc_clean), join(label)>>
        ELSE <<"", "">>

\* "groupname: Label": ^([^:]+):\s*(.+)$ with a group part that is not a number
label_and_group(label) ==
    LET colons == {i \in 1..Len(label) : label[i] = ":"}
        p == IF colons = {} THEN 0 ELSE CHOOSE i \in colons : \A j \in colons : i <= j
        potential_group == strip(SubSeq(label, 1, p - 1))
    IN  IF p >= 2 /\ p < Len(label) /\ ~all_digits(potential_group)
        THEN [group_id |-> join(potential_group),
              label |-> join(strip(SubSeq(label, p + 1, Len(label))))]
        ELSE [group_id |-> None, label |-> join(label)]

\* the ControlSpec of a group definition row; `names` is its group_row_names
group_spec(row, names, color) ==
    [ section |-> "S", cc |-> <<0>>, cc_is_list |-> FALSE,
      label |-> names[2], min_val |-> 0, max_val |-> 0, choices |-> <<>>,
      color |-> color, is_blank |-> FALSE, envelope_type |-> None, msg_type |-> "C",
      default_value |-> <<>>, mode |-> None, is_group |-> TRUE,
      group_size |-> IF all_digits(pick(row, "Range")) THEN dec_value(pick(row, "Range"))
                     ELSE 0,
      group_id |-> names[1], device_id |-> 0 ]

\* the ControlSpec of a blank row
blank_spec(msg_type, color) ==
    [ section |-> "S", cc |-> <<0>>, cc_is_list |-> FALSE, label |-> "",
      min_val |-> 0, max_val |-> 0, choices |-> <<>>, color |-> color,
      is_blank |-> TRUE, envelope_type |-> None, msg_type |-> msg_type,
      default_value |-> <<>>, mode |-> None, is_group |-> FALSE, group_size |-> 0,
      group_id |-> None, device_id |-> 0 ]

\* str(n)
RECURSIVE str_digits(_)
str_digits(n) ==
    IF n < 10 THEN <<DigitSeq[n + 1]>>
    ELSE Append(str_digits(n \div 10), DigitSeq[(n % 10) + 1])

str_of_int(n) == IF n < 0 THEN <<"-">> \o str_digits(0 - n) ELSE str_digits(n)

\* the end of a run of blanks, and of a run of digits, that starts at i
RECURSIVE skip_ws(_, _)
skip_ws(cs, i) == IF i <= Len(cs) /\ cs[i] = " " THEN skip_ws(cs, i + 1) ELSE i

RECURSIVE digits_end(_, _)
digits_end(cs, i) == IF i <= Len(cs) /\ is_digit(cs[i]) THEN digits_end(cs, i + 1) ELSE i

\* re.split(r"[;\n,]+", s); a cell holds no newline, and the empty parts a
\* run of separators leaves here are dropped by parse_choices
RECURSIVE split_parts(_, _, _)
split_parts(cs, i, cur) ==
    IF i > Len(cs) THEN <<cur>>
    ELSE IF cs[i] \in {";", ","} THEN <<cur>> \o split_parts(cs, i + 1, <<>>)
    ELSE split_parts(cs, i + 1, Append(cur, cs[i]))

\* str.replace(old, new)
RECURSIVE replace(_, _, _)
replace(cs, old, new) ==
    IF Len(cs) < Len(old) THEN cs
    ELSE IF SubSeq(cs, 1, Len(old)) = old
    THEN new \o replace(SubSeq(cs, Len(old) + 1, Len(cs)), old, new)
    ELSE <<cs[1]>> \o replace(Tail(cs), old, new)

\* expand_range_label: the label of every value of lhs_a..lhs_b, a "1-4" in
\* it replaced by the value's rank
expand_range_label(lhs_a, lhs_b, rhs) ==
    [k \in 1..(IF lhs_b >= lhs_a THEN lhs_b - lhs_a + 1 ELSE 0) |->
        <<lhs_a + k - 1, replace(clean_cell(rhs), <<"1", "-", "4">>, str_of_int(k))>>]

\* ^(\d+)\s*-\s*(\d+)\s*[:=]\s*(.+)$ on a part: whether it matches, and the
\* items it gives
is_range_mapping(p) ==
    LET d1 == digits_end(p, 1)
        dash == skip_ws(p, d1)
        b == skip_ws(p, dash + 1)
        d2 == digits_end(p, b)
        sep == skip_ws(p, d2)
    IN  d1 > 1 /\ dash <= Len(p) /\ p[dash] = "-" /\ d2 > b
        /\ sep < Len(p) /\ p[sep] \in {":", "="}

match_range_mapping(p) ==
    LET d1 == digits_end(p, 1)
        b == skip_ws(p, skip_ws(p, d1) + 1)
        d2 == digits_end(p, b)
        sep == skip_ws(p, d2)
    IN  expand_range_label(dec_value(SubSeq(p, 1, d1 - 1)),
                           dec_value(SubSeq(p, b, d2 - 1)),
                           SubSeq(p, sep + 1, Len(p)))

\* ^(\d+)\s*[:=]\s*(.+)$
match_value_label(p) ==
    LET d1 == digits_end(p, 1)
        sep == skip_ws(p, d1)
    IN  IF d1 > 1 /\ sep < Len(p) /\ p[sep] \in {":", "="}
        THEN << <<dec_value(SubSeq(p, 1, d1 - 1)), clean_cell(SubSeq(p, sep + 1, Len(p)))>> >>
        ELSE <<>>

\* the last "(" of a part that ends with ")" and has a character before
\* the "(", or 0
open_paren(p) ==
    IF p # <<>> /\ p[Len(p)] = ")" /\ \E i \in 2..Len(p) : p[i] = "("
    THEN CHOOSE i \in 2..Len(p) : p[i] = "(" /\ \A j \in (i + 1)..Len(p) : p[j] # "("
    ELSE 0

\* ^(.+?)\s*\(\s*(\d+)\s*-\s*(\d+)\s*\)\s*$: whether the part matches, and
\* the items it gives (none for a range that runs backwards)
is_label_range(p) ==
    LET o == open_paren(p)
        inside == strip(SubSeq(p, o + 1, Len(p) - 1))
        d1 == digits_end(inside, 1)
        dash == skip_ws(inside, d1)
        b == skip_ws(inside, dash + 1)
        d2 == digits_end(inside, b)
    IN  o > 0 /\ d1 > 1 /\ dash <= Len(inside) /\ inside[dash] = "-"
        /\ d2 > b /\ d2 > Len(inside)

match_label_range(p) ==
    LET o == open_paren(p)
        inside == strip(SubSeq(p, o + 1, Len(p) - 1))
        d1 == digits_end(inside, 1)
        b == skip_ws(inside, skip_ws(inside, d1) + 1)
        a_val == dec_value(SubSeq(inside, 1, d1 - 1))
        b_val == dec_value(SubSeq(inside, b, Len(inside)))
    IN  [k \in 1..(IF b_val >= a_val THEN b_val - a_val + 1 ELSE 0) |->
            <<a_val + k - 1, clean_cell(SubSeq(p, 1, o - 1))>>]

\* ^(.+?)\s*\(\s*(\d+)\s*\)\s*$
match_label_value(p) ==
    LET o == open_paren(p)
        inside == strip(SubSeq(p, o + 1, Len(p) - 1))
    IN  IF o > 0 /\ all_digits(inside)
        THEN << <<dec_value(inside), clean_cell(SubSeq(p, 1, o - 1))>> >>
        ELSE <<>>

\* the items of one part of the cell; a bare label has the value -1
part_items(p) ==
    IF is_range_mapping(p) THEN match_range_mapping(p)
    ELSE IF match_value_label(p) # <<>> THEN match_value_label(p)
    ELSE IF is_label_range(p) THEN match_label_range(p)
    ELSE IF match_label_value(p) # <<>> THEN match_label_value(p)
    ELSE << <<-1, p>> >>

RECURSIVE items_of_parts(_, _)
items_of_parts(parts, i) ==
    IF i > Len(parts) THEN <<>>
    ELSE IF clean_cell(parts[i]) = <<>> THEN items_of_parts(parts, i + 1)
    ELSE part_items(clean_cell(parts[i])) \o items_of_parts(parts, i + 1)

\* "If we got bare labels (-1), assign sequential values": the valued items
\* first, then the bare labels numbered from minv
assign_sequential(items, minv) ==
    LET bare == SelectSeq(items, LAMBDA it : it[1] = -1)
    IN  SelectSeq(items, LAMBDA it : it[1] # -1)
        \o [k \in 1..Len(bare) |-> <<minv + k - 1, bare[k][2]>>]

\* "de-dupe by value, keep first"
dedupe_by_value(items) ==
    LET first == {i \in 1..Len(items) : \A j \in 1..(i - 1) : items[j][1] # items[i][1]}
        kept == SelectSeq([i \in 1..Len(items) |-> <<i, items[i]>>],
                          LAMBDA e : e[1] \in first)
    IN  [k \in 1..Len(kept) |-> <<kept[k][2][1], join(kept[k][2][2])>>]

\* parse_choices(s, minv, maxv): [(value, label), ...]
parse_choices(s, minv) ==
    LET c == clean_cell(s)
    IN  IF c = <<>> \/ join(chars_lower(c)) \in {"n/a", "na", "none", "no"} THEN <<>>
        ELSE dedupe_by_value(assign_sequential(items_of_parts(split_parts(c, 1, <<>>), 1),
                                               minv))

\* "If no default value specified, use 0 if in range, otherwise min"
default_of(range) ==
    IF range[3] # <<>> THEN range[3]
    ELSE IF range[1] <= 0 /\ 0 <= range[2] THEN <<0>> ELSE <<range[1]>>

\* choices_s.upper() in ("ADSR", "ADR")
envelope_of(choices_s) ==
    IF choices_s = <<"A", "D", "S", "R">> \/ choices_s = <<"A", "D", "R">>
    THEN join(choices_s) ELSE None

\* the choices of a control row: none for an envelope, else parse_choices of
\* the Choices cell; the table has no Description column, for which
\* infer_choices_from_desc gives []
row_choices(row, range) ==
    IF envelope_of(chars_upper(pick(row, "Choices"))) # None THEN <<>>
    ELSE parse_choices(pick(row, "Choices"), range[1])

\* the ControlSpec of a control row; `parsed` is its parse_cc, `lg` its label
\* and group, `range` its parse_range
control_spec(row, parsed, lg, color, range) ==
    [ section |-> "S", cc |-> parsed.cc, cc_is_list |-> parsed.cc_is_list,
      label |-> lg.label, min_val |-> range[1], max_val |-> range[2],
      choices |-> row_choices(row, range),
      color |-> color, is_blank |-> FALSE,
      envelope_type |-> envelope_of(chars_upper(pick(row, "Choices"))),
      msg_type |-> parsed.msg_type, default_value |-> default_of(range),
      mode |-> infer_mode(range[1], range[2], row_choices(row, range)),
      is_group |-> FALSE, group_size |-> 0,
      group_id |-> lg.group_id, device_id |-> parsed.device_id ]

\* "if parsed_color: current_color = parsed_color"
sticky_color(parsed_color, cur) == IF parsed_color # None THEN parsed_color ELSE cur

\* a current_color that does not persist: the row's own colour only
color_of_row_only(parsed_color) == parsed_color

\* current_color after the row's Color cell
color_after(parsed_color) == sticky_color(parsed_color, current_color)

\* what one row appends to specs: a group definition, a blank placeholder,
\* nothing (a row with only a control number or only a label), or a control
row_specs(row, names, parsed, lg, color) ==
    IF names[1] # "" /\ names[2] # "" THEN <<group_spec(row, names, color)>>
    ELSE IF parsed.cc = <<>> /\ lg.label = "" THEN <<blank_spec(parsed.msg_type, color)>>
    ELSE IF parsed.cc = <<>> \/ lg.label = "" THEN <<>>
    ELSE <<control_spec(row, parsed, lg, color, parse_range(row["Range"]))>>

append_specs(out, color) ==
    /\ specs' = specs \o out
    /\ spec_row' = spec_row \o [k \in 1..Len(out) |-> row_i]
    /\ current_color' = color
    /\ pc' = IF row_i < Len(rows) THEN "parse"
             ELSE IF specs \o out = <<>> THEN "groups" ELSE "page"

\* parse_controls_from_md: one row of the table; after the last row main()
\* hands the specs to generate_preset
ParseRow ==
    /\ pc = "parse"
    /\ row_i <= Len(rows)
    /\ append_specs(row_specs(rows[row_i], group_row_names(rows[row_i]),
                              parse_cc(pick(rows[row_i], "CC")),
                              label_and_group(pick(rows[row_i], "Label")),
                              color_after(parse_color(rows[row_i]["Color"]))),
                    color_after(parse_color(rows[row_i]["Color"])))
    /\ row_i' = row_i + 1
    /\ UNCHANGED <<meta, verbose, raised, sec_i, chunk_i, spec_i, pages, controls, overlays, groups,
                   group_controls, group_defs, page_id, next_control_id, next_group_id,
                   next_overlay_id, position_idx, current_group_name,
                   current_group_remaining, grp_i, warnings, emitted_from, rev_vars,
                   rows, md, md_i, specs2, choices_arg, minv_arg, choices_cell, choices_out>>

-----------------------------------------------------------------------------
\* json2md.py: format_choices, generate_markdown

\* sep.join(parts)
RECURSIVE join_with(_, _)
join_with(sep, parts) ==
    IF parts = <<>> THEN <<>>
    ELSE IF Len(parts) = 1 THEN parts[1]
    ELSE parts[1] \o sep \o join_with(sep, Tail(parts))

\* format_choices: the labels alone for a run of more than two values that
\* starts at 0 or 1, value=label otherwise
format_choices(choices) ==
    IF choices = <<>> THEN <<>>
    ELSE IF /\ \A i \in 1..Len(choices) : choices[i][1] = choices[1][1] + i - 1
            /\ choices[1][1] \in {0, 1}
            /\ Len(choices) > 2
    THEN join_with(<<",", " ">>, [i \in 1..Len(choices) |-> chars_of(choices[i][2])])
    ELSE join_with(<<",", " ">>,
                   [i \in 1..Len(choices) |->
                       str_of_int(choices[i][1]) \o <<"=">> \o chars_of(choices[i][2])])

\* the controls of a section that are no group rows, and the positions they
\* are drawn at
is_group_row(ctrl) == DictGet(ctrl, "is_group", FALSE)

x_positions(ctrls) ==
    {ctrls[i]._bounds[1] : i \in {k \in 1..Len(ctrls) : ~is_group_row(ctrls[k])}}

y_positions(ctrls) ==
    {ctrls[i]._bounds[2] : i \in {k \in 1..Len(ctrls) : ~is_group_row(ctrls[k])}}

\* the minimum spacing of sorted positions; 0 stands for None
min_spacing(sorted) ==
    IF Len(sorted) > 1
    THEN SeqMin([i \in 1..(Len(sorted) - 1) |-> sorted[i + 1] - sorted[i]])
    ELSE 0

\* "Extend to 6 columns (standard Electra One grid)"
sorted_complete_x(ctrls) ==
    LET xs == sorted_set(x_positions(ctrls))
    IN  IF min_spacing(xs) # 0 /\ Len(xs) > 1
        THEN sorted_set(x_positions(ctrls)
                        \cup {xs[1] + i * min_spacing(xs) : i \in 0..5})
        ELSE xs

\* "Fill in missing Y positions based on spacing"
sorted_complete_y(ctrls) ==
    LET ys == sorted_set(y_positions(ctrls))
    IN  IF min_spacing(ys) # 0 /\ Len(ys) > 1
        THEN sorted_set(y_positions(ctrls)
                        \cup {ys[1] + k * min_spacing(ys) :
                                k \in 0..((ys[Len(ys)] - ys[1]) \div min_spacing(ys))})
        ELSE ys

\* grid_map.get((row_idx, col_idx)): the index in ctrls of the last control
\* drawn at that cell, 0 for None
grid_map(ctrls, xs, ys, row_idx, col_idx) ==
    LET at == {i \in 1..Len(ctrls) : /\ ~is_group_row(ctrls[i])
                                     /\ ctrls[i]._bounds[1] = xs[col_idx]
                                     /\ ctrls[i]._bounds[2] = ys[row_idx]}
    IN  IF at = {} THEN 0 ELSE CHOOSE i \in at : \A j \in at : j <= i

\* groups_by_row[row_idx]: the groups whose first row below their own y is
\* this one, in the order of the section
groups_by_row(ctrls, ys, row_idx) ==
    SelectSeq(ctrls, LAMBDA c : /\ is_group_row(c)
                                /\ ys[row_idx] > c._bounds[2]
                                /\ \A r \in 1..(row_idx - 1) : ys[r] <= c._bounds[2])

\* the last row that holds a control, and the last column any row holds one in
last_row(ctrls, xs, ys) ==
    LET used == {r \in 1..Len(ys) : \E c \in 1..Len(xs) : grid_map(ctrls, xs, ys, r, c) # 0}
    IN  IF used = {} THEN 0 ELSE CHOOSE r \in used : \A q \in used : q <= r

last_col(ctrls, xs, ys) ==
    LET used == {c \in 1..Len(xs) : \E r \in 1..Len(ys) : grid_map(ctrls, xs, ys, r, c) # 0}
    IN  IF used = {} THEN 0 ELSE CHOOSE c \in used : \A q \in used : q <= c

\* the items of the table in the order they are written: the groups of a
\* row, then its cells; [blank |-> TRUE] is a blank placeholder, and a blank
\* after the last control is left out
RECURSIVE row_cells(_, _, _, _, _, _, _)
row_cells(ctrls, xs, ys, row_idx, col_idx, lr, lc) ==
    IF col_idx > Len(xs) THEN <<>>
    ELSE (IF grid_map(ctrls, xs, ys, row_idx, col_idx) # 0
          THEN <<ctrls[grid_map(ctrls, xs, ys, row_idx, col_idx)]>>
          ELSE IF row_idx < lr \/ (row_idx = lr /\ col_idx <= lc)
          THEN <<[blank |-> TRUE]>>
          ELSE <<>>)
         \o row_cells(ctrls, xs, ys, row_idx, col_idx + 1, lr, lc)

RECURSIVE grid_items(_, _, _, _, _, _)
grid_items(ctrls, xs, ys, row_idx, lr, lc) ==
    IF row_idx > Len(ys) THEN <<>>
    ELSE groups_by_row(ctrls, ys, row_idx)
         \o row_cells(ctrls, xs, ys, row_idx, 1, lr, lc)
         \o grid_items(ctrls, xs, ys, row_idx + 1, lr, lc)

section_items(ctrls) ==
    grid_items(ctrls, sorted_complete_x(ctrls), sorted_complete_y(ctrls), 1,
               last_row(ctrls, sorted_complete_x(ctrls), sorted_complete_y(ctrls)),
               last_col(ctrls, sorted_complete_x(ctrls), sorted_complete_y(ctrls)))

\* "if color != current_color: current_color = color"
md_color_after(color, cur) == IF color # cur THEN color ELSE cur

\* f"#{current_color}" if current_color else ""
color_val(cur) == IF Truthy(cur) THEN <<"#">> \o chars_of(cur) ELSE <<>>

\* | {label} | {label.upper()} | {range_val} | | {color_val} |
group_line(ctrl, cur) ==
    [ CC |-> chars_of(ctrl.label), Label |-> chars_upper(chars_of(ctrl.label)),
      Range |-> IF ctrl.group_size > 0 THEN str_of_int(ctrl.group_size) ELSE <<>>,
      Choices |-> <<>>, Color |-> color_val(cur) ]

\* |  |  |  |  |  |
blank_line == [ CC |-> <<>>, Label |-> <<>>, Range |-> <<>>, Choices |-> <<>>,
                Color |-> <<>> ]

\* cc_str: the numbers of an envelope joined by commas, the number of any
\* other control, and the index of the device before it if the preset has
\* more than one device
cc_str(ctrl) ==
    LET plain == IF ctrl.cc = <<>> THEN <<>>
                 ELSE IF ctrl.type \in {"adsr", "adr"}
                 THEN join_with(<<",">>, [k \in 1..Len(ctrl.cc[1]) |->
                                            str_of_int(ctrl.cc[1][k])])
                 ELSE str_of_int(ctrl.cc[1])
    IN  IF /\ Len(devices_list(meta)) > 1
           /\ ctrl.device_id # 0
           /\ \E idx \in 1..Len(devices_list(meta)) :
                 devices_list(meta)[idx].id = ctrl.device_id
        THEN str_of_int(CHOOSE idx \in 1..Len(devices_list(meta)) :
                            devices_list(meta)[idx].id = ctrl.device_id)
             \o <<":">> \o plain
        ELSE plain

\* range_str: one number for min = max, min-max otherwise, then the default
\* in parentheses unless it is the automatic one (0 if in range, else min);
\* every control generate_preset writes has values, so both bounds are numbers
range_str(ctrl) ==
    LET base == IF ctrl.min_val = ctrl.max_val THEN str_of_int(ctrl.min_val)
                ELSE str_of_int(ctrl.min_val) \o <<"-">> \o str_of_int(ctrl.max_val)
        auto_default == IF ctrl.min_val <= 0 /\ 0 <= ctrl.max_val THEN 0 ELSE ctrl.min_val
    IN  IF ctrl.default_value # <<>> /\ ctrl.default_value[1] # auto_default
        THEN base \o <<" ", "(">> \o str_of_int(ctrl.default_value[1]) \o <<")">>
        ELSE base

\* | {cc_str} | {label} | {range_str} | {choices_str} | {color_val} |
control_line(ctrl, cur) ==
    [ CC |-> cc_str(ctrl),
      Label |-> IF Truthy(DictGet(ctrl, "group_id", None))
                THEN chars_of(ctrl.group_id) \o <<":", " ">> \o chars_of(ctrl.label)
                ELSE chars_of(ctrl.label),
      Range |-> range_str(ctrl),
      Choices |-> IF Truthy(ctrl.envelope_type) THEN chars_of(ctrl.envelope_type)
                  ELSE format_choices(ctrl.choices),
      Color |-> color_val(cur) ]

\* the lines of the table, current_color carried from item to item
RECURSIVE table_lines(_, _, _)
table_lines(items, i, cur) ==
    IF i > Len(items) THEN <<>>
    ELSE IF "blank" \in DOMAIN items[i] THEN <<blank_line>> \o table_lines(items, i + 1, cur)
    ELSE IF is_group_row(items[i])
    THEN <<group_line(items[i], md_color_after(items[i].color, cur))>>
         \o table_lines(items, i + 1, md_color_after(items[i].color, cur))
    ELSE <<control_line(items[i], md_color_after(items[i].color, cur))>>
         \o table_lines(items, i + 1, md_color_after(items[i].color, cur))

\* generate_markdown: the table of one section, after group_controls_by_page
MarkdownSection ==
    /\ pc = "grouped"
    /\ md_i <= Len(sections)
    /\ md' = Append(md, [ name |-> sections[md_i].name,
                          rows |-> table_lines(section_items(sections[md_i].controls),
                                               1, None) ])
    /\ md_i' = md_i + 1
    /\ UNCHANGED <<pc, run_vars, rev_vars, rows, row_i, current_color, spec_row, specs2,
                   choices_arg, minv_arg, choices_cell, choices_out>>


\* parse_controls_from_md on one section of the generated markdown: its
\* title, its rows, current_color carried from row to row
RECURSIVE parse_rows(_, _, _, _)
parse_rows(title, rs, i, cur) ==
    IF i > Len(rs) THEN <<>>
    ELSE [k \in 1..Len(row_specs(rs[i], group_row_names(rs[i]),
                                 parse_cc(pick(rs[i], "CC")),
                                 label_and_group(pick(rs[i], "Label")),
                                 sticky_color(parse_color(rs[i]["Color"]), cur))) |->
            [row_specs(rs[i], group_row_names(rs[i]), parse_cc(pick(rs[i], "CC")),
                       label_and_group(pick(rs[i], "Label")),
                       sticky_color(parse_color(rs[i]["Color"]), cur))[k]
                EXCEPT !.section = title]]
         \o parse_rows(title, rs, i + 1, sticky_color(parse_color(rs[i]["Color"]), cur))

RECURSIVE parse_sections(_, _)
parse_sections(tables, i) ==
    IF i > Len(tables) THEN <<>>
    ELSE parse_rows(tables[i].name, tables[i].rows, 1, None) \o parse_sections(tables, i + 1)

\* the generated markdown parsed again (the second parse of the round trip)
Reparse ==
    /\ pc = "grouped"
    /\ md_i > Len(sections)
    /\ specs2' = parse_sections(md, 1)
    /\ pc' = "reparsed"
    /\ UNCHANGED <<run_vars, rev_vars, rows, row_i, current_color, spec_row, md, md_i,
                   choices_arg, minv_arg, choices_cell, choices_out>>

\* format_choices and parse_choices called on a choice list of their own
FormatChoices ==
    /\ pc = "format_choices"
    /\ choices_cell' = format_choices(choices_arg)
    /\ pc' = "parse_choices"
    /\ UNCHANGED <<run_vars, rev_vars, rows, row_i, current_color, spec_row, md, md_i,
                   specs2, choices_arg, minv_arg, choices_out>>

ParseChoices ==
    /\ pc = "parse_choices"
    /\ choices_out' = parse_choices(choices_cell, minv_arg)
    /\ pc' = "choices_done"
    /\ UNCHANGED <<run_vars, rev_vars, rows, row_i, current_color, spec_row, md, md_i,
                   specs2, choices_arg, minv_arg, choices_cell>>

-----------------------------------------------------------------------------
\* Inputs

BaseSpec ==
    [ section |-> "S", cc |-> <<10>>, cc_is_list |-> FALSE, label |-> "c",
      min_val |-> 0, max_val |-> 127, choices |-> <<>>, color |-> None,
      is_blank |-> FALSE, envelope_type |-> None, msg_type |-> "C",
      default_value |-> <<0>>, mode |-> None, is_group |-> FALSE, group_size |-> 0,
      group_id |-> None, device_id |-> 0 ]

\* what parse_controls_from_md builds for a group row and for a blank row
GroupHeader(name, n) ==
    [BaseSpec EXCEPT !.cc = <<0>>, !.label = name, !.max_val = 0, !.default_value = <<>>,
                     !.is_group = TRUE, !.group_size = n, !.group_id = name]

BlankSpec ==
    [BaseSpec EXCEPT !.cc = <<0>>, !.label = "", !.max_val = 0, !.default_value = <<>>,
                     !.is_blank = TRUE]

Tagged(g) == [BaseSpec EXCEPT !.label = "t", !.group_id = g]

\* an ADSR row with three parameter numbers
BadEnvelope ==
    [BaseSpec EXCEPT !.label = "e", !.cc = <<1, 2, 3>>, !.cc_is_list = TRUE,
                     !.envelope_type = "ADSR"]

LayoutSpecs ==
    { GroupHeader("g", 2), GroupHeader("g", 0), BaseSpec, Tagged("g"), Tagged("h"),
      BlankSpec, BadEnvelope }

\* two grids of the default cell size and row pitch (56 + 34), and a denser one
LayoutMetas ==
    { [electra |-> [cols |-> 2, rows |-> 2]],
      [electra |-> [cols |-> 3, rows |-> 1]],
      [electra |-> [cols |-> 2, rows |-> 2, cell_height |-> 40, ypadding |-> 10]] }

\* n plain controls in one section
PlainControls(n) == [i \in 1..n |-> BaseSpec]

\* pagination scenarios: 40 controls on the default 6x6 grid, 5 controls on 2x1,
\* and two interleaved sections on 2x1
Scenarios ==
    { [meta |-> [name |-> "Synth"], specs |-> PlainControls(40)],
      [meta |-> [electra |-> [cols |-> 2, rows |-> 1]], specs |-> PlainControls(5)],
      [meta |-> [electra |-> [cols |-> 2, rows |-> 1]],
       specs |-> <<BaseSpec, [BaseSpec EXCEPT !.section = "T"], BaseSpec,
                   [BlankSpec EXCEPT !.section = "T"], BaseSpec,
                   [BaseSpec EXCEPT !.section = "T"]>>] }

\* Inputs of the classifier: every combination of envelope kind, choices,
\* message kind, range and mode, as the one member of a span group
EnvelopeTypes == {None, "ADSR", "ADR", "Adsr"}

ChoiceLists ==
    { <<>>,
      << <<0, "Off">>, <<1, "On">> >>,
      << <<1, "ON">>, <<0, " OFF ">> >>,
      << <<0, "Pause">>, <<1, "Play">> >>,
      << <<0, "Disable">>, <<1, "Enable">> >>,
      << <<0, "Disabled">>, <<1, "Enabled">> >>,
      << <<0, "No">>, <<1, "Yes">> >>,
      << <<0, "False">>, <<1, "True">> >>,
      << <<0, "Red">>, <<1, "Blue">> >>,
      << <<0, "Off">>, <<1, "Auto">> >>,
      << <<0, "On">>, <<1, "On">> >>,
      << <<0, "Disabled">>, <<1, "Enable">> >>,
      << <<0, "Released">>, <<1, "Momentary">> >>,
      << <<0, "Off">>, <<1, "On">>, <<2, "Auto">> >> }

MsgTypes == {"C", "N", "P", "S"}

Ranges == { <<0, 127>>, <<0, 128>>, <<0, 16383>>, <<-64, 63>>, <<1, 7>> }

Modes == {None, "bipolar", "unipolar", "momentary", "toggle", "default"}

\* the parameter numbers an envelope row of that kind carries
envelope_cc(env) == IF env = "ADR" THEN <<1, 2, 3>> ELSE <<1, 2, 3, 4>>

ClassifySpec(env, choices, msg, range, mode) ==
    [BaseSpec EXCEPT !.envelope_type = env, !.choices = choices, !.msg_type = msg,
                     !.min_val = range[1], !.max_val = range[2], !.mode = mode,
                     !.default_value = IF range[1] <= 0 /\ 0 <= range[2]
                                       THEN <<0>> ELSE <<range[1]>>,
                     !.cc = IF env = None THEN <<10>> ELSE envelope_cc(env),
                     !.cc_is_list = (env # None)]

ClassifySpecs ==
    { ClassifySpec(env, choices, msg, range, mode) :
        env \in EnvelopeTypes, choices \in ChoiceLists, msg \in MsgTypes,
        range \in Ranges, mode \in Modes }

\* rows of a table | CC | Label | Range | Choices | Color |, cell by cell
TableRows ==
    {
      \* | N100 | Cut | 0-127 |  |  |
      [ CC |-> <<"N", "1", "0", "0">>, Label |-> <<"C", "u", "t">>, Range |-> <<"0", "-", "1", "2", "7">>,
        Choices |-> <<>>, Color |-> <<>> ],
      \* | n100 | Cut | 0-127 |  |  |
      [ CC |-> <<"n", "1", "0", "0">>, Label |-> <<"C", "u", "t">>, Range |-> <<"0", "-", "1", "2", "7">>,
        Choices |-> <<>>, Color |-> <<>> ],
      \* | C200 | Cut | 0-127 |  |  |
      [ CC |-> <<"C", "2", "0", "0">>, Label |-> <<"C", "u", "t">>, Range |-> <<"0", "-", "1", "2", "7">>,
        Choices |-> <<>>, Color |-> <<>> ],
      \* | c200 | Cut | 0-127 |  |  |
      [ CC |-> <<"c", "2", "0", "0">>, Label |-> <<"C", "u", "t">>, Range |-> <<"0", "-", "1", "2", "7">>,
        Choices |-> <<>>, Color |-> <<>> ],
      \* | P5 | Cut | 0-127 |  |  |
      [ CC |-> <<"P", "5">>, Label |-> <<"C", "u", "t">>, Range |-> <<"0", "-", "1", "2", "7">>,
        Choices |-> <<>>, Color |-> <<>> ],
      \* | p5 | Cut | 0-127 |  |  |
      [ CC |-> <<"p", "5">>, Label |-> <<"C", "u", "t">>, Range |-> <<"0", "-", "1", "2", "7">>,
        Choices |-> <<>>, Color |-> <<>> ],
      \* | S7 | Cut | 0-127 |  |  |
      [ CC |-> <<"S", "7">>, Label |-> <<"C", "u", "t">>, Range |-> <<"0", "-", "1", "2", "7">>,
        Choices |-> <<>>, Color |-> <<>> ],
      \* | s7 | Cut | 0-127 |  |  |
      [ CC |-> <<"s", "7">>, Label |-> <<"C", "u", "t">>, Range |-> <<"0", "-", "1", "2", "7">>,
        Choices |-> <<>>, Color |-> <<>> ],
      \* | 38 | Cut | 0-127 |  |  |
      [ CC |-> <<"3", "8">>, Label |-> <<"C", "u", "t">>, Range |-> <<"0", "-", "1", "2", "7">>,
        Choices |-> <<>>, Color |-> <<>> ],
      \* | 1:N100 | Cut | 0-127 |  |  |
      [ CC |-> <<"1", ":", "N", "1", "0", "0">>, Label |-> <<"C", "u", "t">>, Range |-> <<"0", "-", "1", "2", "7">>,
        Choices |-> <<>>, Color |-> <<>> ],
      \* | 0x1A | Cut | 0-127 |  |  |
      [ CC |-> <<"0", "x", "1", "A">>, Label |-> <<"C", "u", "t">>, Range |-> <<"0", "-", "1", "2", "7">>,
        Choices |-> <<>>, Color |-> <<>> ],
      \* | 1A | Cut | 0-127 |  |  |
      [ CC |-> <<"1", "A">>, Label |-> <<"C", "u", "t">>, Range |-> <<"0", "-", "1", "2", "7">>,
        Choices |-> <<>>, Color |-> <<>> ],
      \* | N100 |  | 0-127 |  |  |
      [ CC |-> <<"N", "1", "0", "0">>, Label |-> <<>>, Range |-> <<"0", "-", "1", "2", "7">>,
        Choices |-> <<>>, Color |-> <<>> ],
      \* |  |  |  |  |  |
      [ CC |-> <<>>, Label |-> <<>>, Range |-> <<>>,
        Choices |-> <<>>, Color |-> <<>> ],
      \* |  | Cut | 0-127 |  |  |
      [ CC |-> <<>>, Label |-> <<"C", "u", "t">>, Range |-> <<"0", "-", "1", "2", "7">>,
        Choices |-> <<>>, Color |-> <<>> ],
      \* | grp | G | 2 |  | f45c51 |
      [ CC |-> <<"g", "r", "p">>, Label |-> <<"G">>, Range |-> <<"2">>,
        Choices |-> <<>>, Color |-> <<"f", "4", "5", "c", "5", "1">> ],
      \* | Group | G | 1 |  |  |
      [ CC |-> <<"G", "r", "o", "u", "p">>, Label |-> <<"G">>, Range |-> <<"1">>,
        Choices |-> <<>>, Color |-> <<>> ],
      \* | grp | G |  |  |  |
      [ CC |-> <<"g", "r", "p">>, Label |-> <<"G">>, Range |-> <<>>,
        Choices |-> <<>>, Color |-> <<>> ],
      \* | 38 | grp: Cut | -64-63 |  |  |
      [ CC |-> <<"3", "8">>, Label |-> <<"g", "r", "p", ":", " ", "C", "u", "t">>, Range |-> <<"-", "6", "4", "-", "6", "3">>,
        Choices |-> <<>>, Color |-> <<>> ],
      \* | 38 | 12:30 | 1-7 |  |  |
      [ CC |-> <<"3", "8">>, Label |-> <<"1", "2", ":", "3", "0">>, Range |-> <<"1", "-", "7">>,
        Choices |-> <<>>, Color |-> <<>> ],
      \* | 38 | Cut | 0-127 (64) |  |  |
      [ CC |-> <<"3", "8">>, Label |-> <<"C", "u", "t">>, Range |-> <<"0", "-", "1", "2", "7", " ", "(", "6", "4", ")">>,
        Choices |-> <<>>, Color |-> <<>> ],
      \* | 38 | Cut | 0-200 |  |  |
      [ CC |-> <<"3", "8">>, Label |-> <<"C", "u", "t">>, Range |-> <<"0", "-", "2", "0", "0">>,
        Choices |-> <<>>, Color |-> <<>> ],
      \* | 1,2,3,4 | Env | 0-127 | adsr |  |
      [ CC |-> <<"1", ",", "2", ",", "3", ",", "4">>, Label |-> <<"E", "n", "v">>, Range |-> <<"0", "-", "1", "2", "7">>,
        Choices |-> <<"a", "d", "s", "r">>, Color |-> <<>> ],
      \* | 1,2,3 | Env |  | ADR |  |
      [ CC |-> <<"1", ",", "2", ",", "3">>, Label |-> <<"E", "n", "v">>, Range |-> <<>>,
        Choices |-> <<"A", "D", "R">>, Color |-> <<>> ],
      \* | *38* | Cut | 0-127 |  |  |
      [ CC |-> <<"*", "3", "8", "*">>, Label |-> <<"C", "u", "t">>, Range |-> <<"0", "-", "1", "2", "7">>,
        Choices |-> <<>>, Color |-> <<>> ],
      \* | N100 | Cut | 0-127 |  | #F45C51 |
      [ CC |-> <<"N", "1", "0", "0">>, Label |-> <<"C", "u", "t">>, Range |-> <<"0", "-", "1", "2", "7">>,
        Choices |-> <<>>, Color |-> <<"#", "F", "4", "5", "C", "5", "1">> ] }

MaxRows == 2

\* the locals of main.py, json2md.py and mdparser.py before their loops
InitState(v) ==
    /\ verbose = v /\ raised = None
    /\ sec_i = 1 /\ chunk_i = 1 /\ spec_i = 1
    /\ pages = <<>> /\ controls = <<>> /\ overlays = <<>> /\ groups = <<>>
    /\ group_controls = <<>> /\ group_defs = <<>>
    /\ page_id = 1 /\ next_control_id = 1 /\ next_group_id = 1000 /\ next_overlay_id = 1
    /\ position_idx = 0 /\ current_group_name = None /\ current_group_remaining = 0
    /\ grp_i = 1 /\ warnings = <<>> /\ emitted_from = <<>>
    /\ rp_i = 1 /\ rg_i = 1 /\ group_name_usage = [n \in {} |-> 0]
    /\ controls_with_bounds = <<>> /\ ordered_controls = <<>>
    /\ control_index_map = <<>> /\ control_to_group = [i \in {} |-> ""]
    /\ sections = <<>>
    /\ row_i = 1 /\ current_color = None /\ spec_row = <<>>
    /\ md = <<>> /\ md_i = 1 /\ specs2 = <<>> /\ choices_cell = <<>> /\ choices_out = <<>>

\* main() hands generate_preset verbose = (args.debug and args.verbose): False
\* unless both flags are given
InitLoops == InitState(FALSE)

\* the same, with no choice list handed to format_choices on its own
InitLocals == InitLoops /\ choices_arg = <<>> /\ minv_arg = 0

\* generate_preset called on specs that no table was parsed for
InitRun ==
    /\ pc = IF specs = <<>> THEN "groups" ELSE "page"
    /\ rows = <<>>
    /\ InitLocals

Init ==
    /\ \/ /\ meta \in LayoutMetas
          /\ specs \in UNION {[1..n -> LayoutSpecs] : n \in 1..MaxSpecs}
       \/ \E sc \in Scenarios : meta = sc.meta /\ specs = sc.specs
    /\ InitRun

InitClassify ==
    /\ meta = [name |-> "Synth"]
    /\ \E x \in ClassifySpecs : specs = <<GroupHeader("g", 1), x>>
    /\ InitRun

\* parse_controls_from_md called on a table of one section
InitParse ==
    /\ meta = [name |-> "Synth"]
    /\ specs = <<>>
    /\ rows \in UNION {[1..n -> TableRows] : n \in 1..MaxRows}
    /\ pc = "parse"
    /\ InitLocals

Next ==
    \/ StartPage \/ ProcessSpec \/ EndPage \/ BuildGroup \/ EmitPreset
    \/ GroupControlsByPage \/ RevPageStart \/ RevGroup \/ RevPageEnd

Spec == Init /\ [][Next]_vars

SpecClassify == InitClassify /\ [][Next]_vars

\* markdown table to preset and back
NextParse == ParseRow \/ Next

SpecParse == InitParse /\ [][NextParse]_vars

\* Inputs of the overlay table: list controls of three choice lists, two of
\* which differ in one label only, a pad, and a fader, after a span group
OverlaySpecs ==
    { [BaseSpec EXCEPT !.label = "l", !.max_val = 2,
          !.choices = << <<0, "Off">>, <<1, "On">>, <<2, "Auto">> >>],
      [BaseSpec EXCEPT !.label = "m", !.max_val = 2,
          !.choices = << <<0, "Off">>, <<1, "On">>, <<2, "Red">> >>],
      [BaseSpec EXCEPT !.label = "n", !.max_val = 1,
          !.choices = << <<0, "Red">>, <<1, "Blue">> >>],
      [BaseSpec EXCEPT !.label = "p", !.max_val = 1,
          !.choices = << <<0, "Off">>, <<1, "On">> >>],
      BaseSpec }

MaxChoiceSpecs == 4

InitOverlay ==
    /\ meta = [name |-> "Synth"]
    /\ \E ss \in UNION {[1..n -> OverlaySpecs] : n \in 1..MaxChoiceSpecs} :
           specs = <<GroupHeader("g", 1)>> \o ss
    /\ InitRun

SpecOverlay == InitOverlay /\ [][Next]_vars

\* Inputs of the envelope expansion: envelopes whose number of parameter
\* numbers matches their kind, envelopes whose number does not, a fader and a
\* blank row, after a span group, on a grid of two columns and two rows
EnvelopeSpecs ==
    { [BaseSpec EXCEPT !.label = "a", !.cc = <<1, 2, 3, 4>>, !.cc_is_list = TRUE,
                       !.envelope_type = "ADSR"],
      [BaseSpec EXCEPT !.label = "b", !.cc = <<1, 2, 3>>, !.cc_is_list = TRUE,
                       !.envelope_type = "ADR", !.min_val = -64, !.max_val = 63,
                       !.default_value = <<5>>, !.color = "F45C51"],
      [BaseSpec EXCEPT !.label = "n", !.cc = <<1, 2, 3, 4>>, !.cc_is_list = TRUE,
                       !.envelope_type = "ADSR", !.msg_type = "N", !.max_val = 16383,
                       !.default_value = <<>>],
      [BaseSpec EXCEPT !.label = "p", !.cc = <<1, 2, 3>>, !.cc_is_list = TRUE,
                       !.envelope_type = "ADR", !.msg_type = "P"],
      BadEnvelope,
      [BaseSpec EXCEPT !.label = "f", !.cc = <<1, 2, 3, 4>>, !.cc_is_list = TRUE,
                       !.envelope_type = "ADR"],
      [BaseSpec EXCEPT !.label = "s", !.cc = <<5>>, !.envelope_type = "ADSR"],
      BaseSpec,
      BlankSpec }

MaxEnvSpecs == 3

InitEnvelope ==
    /\ meta = [electra |-> [cols |-> 2, rows |-> 2]]
    /\ \E ss \in UNION {[1..n -> EnvelopeSpecs] : n \in 1..MaxEnvSpecs} :
           specs = <<GroupHeader("g", 1)>> \o ss
    /\ InitRun

SpecEnvelope == InitEnvelope /\ [][Next]_vars

\* Inputs of the group naming: span groups displayed as "OSC" (under two
\* group ids) and plain controls, two to a page
GroupNameSpecs ==
    { GroupHeader("OSC", 1),
      [GroupHeader("o2", 1) EXCEPT !.label = "OSC"],
      BaseSpec }

MaxNameSpecs == 7

InitGroupNames ==
    /\ meta = [electra |-> [cols |-> 2, rows |-> 1]]
    /\ specs \in UNION {[1..n -> GroupNameSpecs] : n \in 1..MaxNameSpecs}
    /\ InitRun

SpecGroupNames == InitGroupNames /\ [][Next]_vars

\* Inputs of the colour handling: rows without a colour, with a valid one
\* (written in lower case without '#'), with an invalid one, a group header
\* with a colour, and members of that group without and with a colour
ColorRows ==
    {
      \* | 38 | Cut | 0-127 |  |  |
      [ CC |-> <<"3", "8">>, Label |-> <<"C", "u", "t">>,
        Range |-> <<"0", "-", "1", "2", "7">>, Choices |-> <<>>, Color |-> <<>> ],
      \* | 39 | Res | 0-127 |  | 00ff00 |
      [ CC |-> <<"3", "9">>, Label |-> <<"R", "e", "s">>,
        Range |-> <<"0", "-", "1", "2", "7">>, Choices |-> <<>>,
        Color |-> <<"0", "0", "f", "f", "0", "0">> ],
      \* | 38 | Cut | 0-127 |  | red |
      [ CC |-> <<"3", "8">>, Label |-> <<"C", "u", "t">>,
        Range |-> <<"0", "-", "1", "2", "7">>, Choices |-> <<>>,
        Color |-> <<"r", "e", "d">> ],
      \* | osc | OSC |  |  | #0000FF |
      [ CC |-> <<"o", "s", "c">>, Label |-> <<"O", "S", "C">>,
        Range |-> <<>>, Choices |-> <<>>,
        Color |-> <<"#", "0", "0", "0", "0", "F", "F">> ],
      \* | 40 | osc: Lvl | 0-127 |  |  |
      [ CC |-> <<"4", "0">>, Label |-> <<"o", "s", "c", ":", " ", "L", "v", "l">>,
        Range |-> <<"0", "-", "1", "2", "7">>, Choices |-> <<>>, Color |-> <<>> ],
      \* | 41 | osc: Det | 0-127 |  | #F45C51 |
      [ CC |-> <<"4", "1">>, Label |-> <<"o", "s", "c", ":", " ", "D", "e", "t">>,
        Range |-> <<"0", "-", "1", "2", "7">>, Choices |-> <<>>,
        Color |-> <<"#", "F", "4", "5", "C", "5", "1">> ] }

MaxColorRows == 5

InitColor ==
    /\ meta = [name |-> "Synth"]
    /\ specs = <<>>
    /\ rows \in UNION {[1..n -> ColorRows] : n \in 1..MaxColorRows}
    /\ pc = "parse"
    /\ InitLocals

\* parse_controls_from_md alone
SpecColor == InitColor /\ [][ParseRow]_vars

\* Inputs of the way back to markdown: controls with and without a colour of
\* their own, a SysEx control, a group with a colour and a blank placeholder,
\* after a span group
MarkdownSpecs ==
    { BaseSpec,
      [BaseSpec EXCEPT !.label = "r", !.color = "F45C51"],
      [BaseSpec EXCEPT !.label = "b", !.color = "529DEC"],
      [BaseSpec EXCEPT !.label = "x", !.msg_type = "S", !.cc = <<7>>],
      [GroupHeader("h", 1) EXCEPT !.color = "F45C51"],
      BlankSpec }

MaxMdSpecs == 3

InitMarkdown ==
    /\ meta = [name |-> "Synth"]
    /\ \E ss \in UNION {[1..n -> MarkdownSpecs] : n \in 1..MaxMdSpecs} :
          specs = <<GroupHeader("g", 1)>> \o ss
    /\ InitRun

\* preset to markdown, and the markdown parsed again
NextMarkdown == Next \/ MarkdownSection \/ Reparse

SpecMarkdown == InitMarkdown /\ [][NextMarkdown]_vars

\* Inputs of the round trip markdown -> preset -> markdown -> specs: a fader,
\* a fader, a pad, a list and an envelope with a default value of their
\* own, a pad without one, a span group, a blank row, an NRPN control (behind
\* a device prefix), a pad whose smaller value is labelled On, and a span
\* group whose display label is no group name
RoundRows ==
    {
      \* | 38 | Cut | 0-127 |  |  |
      [ CC |-> <<"3", "8">>, Label |-> <<"C", "u", "t">>,
        Range |-> <<"0", "-", "1", "2", "7">>,
        Choices |-> <<>>,
        Color |-> <<>> ],
      \* | 39 | Res | 0-127 (64) |  |  |
      [ CC |-> <<"3", "9">>, Label |-> <<"R", "e", "s">>,
        Range |-> <<"0", "-", "1", "2", "7", " ", "(", "6", "4", ")">>,
        Choices |-> <<>>,
        Color |-> <<>> ],
      \* | 40 | Sw | 0-1 (1) | Off, On |  |
      [ CC |-> <<"4", "0">>, Label |-> <<"S", "w">>,
        Range |-> <<"0", "-", "1", " ", "(", "1", ")">>,
        Choices |-> <<"O", "f", "f", ",", " ", "O", "n">>,
        Color |-> <<>> ],
      \* | 41 | Mu | 0-1 | Off, On |  |
      [ CC |-> <<"4", "1">>, Label |-> <<"M", "u">>,
        Range |-> <<"0", "-", "1">>,
        Choices |-> <<"O", "f", "f", ",", " ", "O", "n">>,
        Color |-> <<>> ],
      \* | 42 | Wave | 0-2 (1) | Saw, Tri, Sq |  |
      [ CC |-> <<"4", "2">>, Label |-> <<"W", "a", "v", "e">>,
        Range |-> <<"0", "-", "2", " ", "(", "1", ")">>,
        Choices |-> <<"S", "a", "w", ",", " ", "T", "r", "i", ",", " ", "S", "q">>,
        Color |-> <<>> ],
      \* | 1,2,3,4 | Env | 0-127 (10) | ADSR |  |
      [ CC |-> <<"1", ",", "2", ",", "3", ",", "4">>, Label |-> <<"E", "n", "v">>,
        Range |-> <<"0", "-", "1", "2", "7", " ", "(", "1", "0", ")">>,
        Choices |-> <<"A", "D", "S", "R">>,
        Color |-> <<>> ],
      \* | osc | OSC | 1 |  |  |
      [ CC |-> <<"o", "s", "c">>, Label |-> <<"O", "S", "C">>,
        Range |-> <<"1">>,
        Choices |-> <<>>,
        Color |-> <<>> ],
      \* |  |  |  |  |  |
      [ CC |-> <<>>, Label |-> <<>>,
        Range |-> <<>>,
        Choices |-> <<>>,
        Color |-> <<>> ],
      \* | 1:N100 | Nr | 0-127 |  |  |
      [ CC |-> <<"1", ":", "N", "1", "0", "0">>, Label |-> <<"N", "r">>,
        Range |-> <<"0", "-", "1", "2", "7">>,
        Choices |-> <<>>,
        Color |-> <<>> ],
      \* | 43 | Inv | 0-127 | 0=On, 127=Off |  |
      [ CC |-> <<"4", "3">>, Label |-> <<"I", "n", "v">>,
        Range |-> <<"0", "-", "1", "2", "7">>,
        Choices |-> <<"0", "=", "O", "n", ",", " ", "1", "2", "7", "=", "O", "f", "f">>,
        Color |-> <<>> ],
      \* | mix | A+B | 1 |  |  |
      [ CC |-> <<"m", "i", "x">>, Label |-> <<"A", "+", "B">>,
        Range |-> <<"1">>,
        Choices |-> <<>>,
        Color |-> <<>> ] }

MaxRoundRows == 3

InitRound ==
    /\ meta = [name |-> "Synth"]
    /\ specs = <<>>
    /\ rows \in UNION {[1..n -> RoundRows] : n \in 1..MaxRoundRows}
    /\ pc = "parse"
    /\ InitLocals

NextRound == ParseRow \/ NextMarkdown

SpecRound == InitRound /\ [][NextRound]_vars

\* Inputs of format_choices and parse_choices on their own: lists of two to
\* MaxChoices labels that run from 0, run from 1 or skip every other value, and
\* a control whose range starts at 0 or at 1
ChoiceLabels == {"Off", "On", "Auto", "1:1", "Osc (2)"}

MaxChoices == 3

ChoiceArgs ==
    { [i \in 1..n |-> <<first + step * (i - 1), labels[i]>>] :
        n \in 2..MaxChoices, first \in {0, 1}, step \in {1, 2},
        labels \in [1..MaxChoices -> ChoiceLabels] }

InitChoices ==
    /\ meta = [name |-> "Synth"]
    /\ specs = <<>>
    /\ rows = <<>>
    /\ choices_arg \in ChoiceArgs
    /\ minv_arg \in {0, 1}
    /\ pc = "format_choices"
    /\ InitLoops

NextChoices == FormatChoices \/ ParseChoices

SpecChoices == InitChoices /\ [][NextChoices]_vars

\* Inputs of the calls that may or may not come back: either value of verbose,
\* the default grid and what the frontmatter parser makes of "cols: 0" and of a
\* one-cell grid, with rows that are placed and rows that are not
AbortMetas ==
    { [name |-> "Synth"],
      [electra |-> [cols |-> 0]],
      [electra |-> [cols |-> 1, rows |-> 1]] }

AbortSpecs == { GroupHeader("g", 1), BlankSpec, BaseSpec, Tagged("g") }

MaxAbortSpecs == 3

InitAbort ==
    /\ meta \in AbortMetas
    /\ specs \in UNION {[1..n -> AbortSpecs] : n \in 1..MaxAbortSpecs}
    /\ pc = "page"
    /\ rows = <<>>
    /\ \E v \in BOOLEAN : InitState(v)
    /\ choices_arg = <<>> /\ minv_arg = 0

NextAbort == Next \/ RaiseInSpec

SpecAbort == InitAbort /\ [][NextAbort]_vars

\* Inputs of json2md on presets written by hand: controls side by side, a
\* wide control between two others, a control 56 px and one 90 px below the
\* first; group boxes that are headers (16 px high) or full boxes, one that
\* lies over no control, under the names "OSC" and "OSC A"
HandLayouts ==
    { << <<20, 28, 146, 56>> >>,
      << <<20, 28, 146, 56>>, <<187, 28, 146, 56>> >>,
      << <<187, 28, 146, 56>>, <<20, 28, 146, 56>> >>,
      << <<20, 28, 146, 56>>, <<100, 28, 300, 56>>, <<187, 28, 146, 56>> >>,
      << <<20, 28, 146, 56>>, <<187, 28, 146, 56>>, <<20, 84, 146, 56>> >>,
      << <<20, 28, 146, 56>>, <<187, 28, 146, 56>>, <<20, 118, 146, 56>> >>,
      << <<20, 28, 146, 56>>, <<20, 84, 146, 56>> >>,
      << <<20, 118, 146, 56>>, <<20, 28, 146, 56>> >> }

HandGroups ==
    { [name |-> "OSC",   bounds |-> <<14, 6, 325, 16>>],
      [name |-> "OSC",   bounds |-> <<600, 6, 100, 16>>],
      [name |-> "OSC",   bounds |-> <<14, 6, 325, 140>>],
      [name |-> "OSC A", bounds |-> <<181, 6, 158, 16>>] }

MaxHandGroups == 3

HandPresets ==
    { hand_preset(boxes, gs) :
        boxes \in HandLayouts,
        gs \in UNION {[1..n -> HandGroups] : n \in 0..MaxHandGroups} }

InitLoad ==
    /\ meta = [name |-> "Synth"]
    /\ specs = <<>>
    /\ rows = <<>>
    /\ pc = "load"
    /\ InitLocals

LoadPreset ==
    /\ pc = "load"
    /\ \E preset \in HandPresets :
          /\ pages' = preset.pages
          /\ controls' = preset.controls
          /\ groups' = preset.groups
    /\ pc' = "preset"
    /\ UNCHANGED <<meta, verbose, raised, specs, sec_i, chunk_i, spec_i, overlays,
                   group_controls, group_defs, page_id, next_control_id, next_group_id,
                   next_overlay_id, position_idx, current_group_name,
                   current_group_remaining, grp_i, warnings, emitted_from, rev_vars,
                   parse_vars>>

NextLoad ==
    LoadPreset \/ GroupControlsByPage \/ RevPageStart \/ RevGroup \/ RevPageEnd

SpecLoad == InitLoad /\ [][NextLoad]_vars

\* Inputs of the bounding boxes: span groups "g" and "h" of one member each,
\* plain controls and a control tagged "g", on the default grid, on a grid
\* whose columns are 5 px apart and on a 2x2 grid without gaps
BoxMetas ==
    { [name |-> "Synth"],
      [electra |-> [xpadding |-> 5]],
      [electra |-> [cols |-> 2, rows |-> 2, xpadding |-> 0, ypadding |-> 0]] }

BoxSpecs == { GroupHeader("g", 1), GroupHeader("h", 1), BaseSpec, Tagged("g") }

MaxBoxSpecs == 4

InitBoxes ==
    /\ meta \in BoxMetas
    /\ specs \in UNION {[1..n -> BoxSpecs] : n \in 1..MaxBoxSpecs}
    /\ InitRun

SpecBoxes == InitBoxes /\ [][Next]_vars

-----------------------------------------------------------------------------
\* Properties of the layout: grid placement, pagination, groups, round trip

\* the chunk (page) a placed control came from, read off its history entry
chunk_of(e) == section_chunks(by_section(specs, order(specs)[e.sec]), page_cap)[e.chunk]

\* the positions consumed before spec number `at` of a chunk: every spec but
\* the group headers
positions_before(ch, at) == Cardinality({j \in 1..(at - 1) : ~ch[j].is_group})

is_plain_control(s) ==
    ~s.is_group /\ ~s.is_blank /\ s.envelope_type = None /\ s.group_id = None

group_rows(cs) == {i \in 1..Len(cs) : "is_group" \in DOMAIN cs[i]}

control_rows(cs) == SelectSeq(cs, LAMBDA c : "is_group" \notin DOMAIN c)

\* C1's case: a span header opens the page, its N members follow at once, the
\* rest of the page is plain untagged controls, and all of it fits one page
C1Pre ==
    /\ Len(specs) >= 2
    /\ specs[1].is_group /\ specs[1].group_size > 0
    /\ Len(specs) >= specs[1].group_size + 1
    /\ Len(specs) - 1 <= grid.cols * grid.rows
    /\ \A i \in 2..Len(specs) : is_plain_control(specs[i])

\* C1: a span header followed by its N members as the first N placements of a
\* page comes back from generate_preset then group_controls_by_page as one
\* group row with group_size = N, and no control of the page carries a
\* group_id
C1_SpanRoundTrip ==
    (pc = "grouped" /\ C1Pre) =>
        LET cs == sections[1].controls IN
        /\ Cardinality(group_rows(cs)) = 1
        /\ \A i \in group_rows(cs) :
              cs[i].label = specs[1].label /\ cs[i].group_size = specs[1].group_size
        /\ \A i \in 1..Len(cs) : "group_id" \notin DOMAIN cs[i]

\* C2's case: no span header, everything on one page, two members given by
\* explicit tags with exactly one untagged control between them in one grid
\* row, every other control plain
C2Members(a) ==
    /\ a + 2 <= Len(specs)
    /\ \A i \in {a, a + 1, a + 2} : ~specs[i].is_group /\ ~specs[i].is_blank
                                    /\ specs[i].envelope_type = None
    /\ specs[a].group_id # None /\ specs[a + 2].group_id = specs[a].group_id
    /\ specs[a + 1].group_id = None
    /\ positions_before(specs, a) \div grid.cols
          = positions_before(specs, a + 2) \div grid.cols
    /\ \A i \in 1..Len(specs) :
          (i \notin {a, a + 2} /\ ~specs[i].is_group) => is_plain_control(specs[i])

C2Pre ==
    /\ Cardinality({i \in 1..Len(specs) : ~specs[i].is_group}) <= grid.cols * grid.rows
    /\ \A i \in 1..Len(specs) : specs[i].is_group => specs[i].group_size = 0
    /\ \E a \in 1..Len(specs) : C2Members(a)

\* C2: a group given by explicit tags whose two members have one non-member
\* between them in the same grid row comes back in explicit-tag form: its group
\* row has group_size 0, exactly the original members carry its group_id and
\* the non-member carries none
C2_InterruptedRoundTrip ==
    (pc = "grouped" /\ C2Pre) =>
        LET cs == sections[1].controls
            ctl == control_rows(cs)
            a == CHOOSE i \in 1..Len(specs) : C2Members(i)
        IN  /\ Len(ctl) = Len(controls)
            /\ \E i \in group_rows(cs) : cs[i].label = specs[a].group_id
            /\ \A i \in group_rows(cs) : cs[i].group_size = 0
            /\ \A k \in 1..Len(ctl) :
                  IF emitted_from[k].spec.group_id # None
                  THEN "group_id" \in DOMAIN ctl[k]
                       /\ ctl[k].group_id = emitted_from[k].spec.group_id
                  ELSE "group_id" \notin DOMAIN ctl[k]

\* the cell of position index i, as the layout configuration gives it
cell_of(i) ==
    << grid.left_offset + (i % grid.cols) * (grid.cell_w + grid.xpadding),
       grid.top_offset + (i \div grid.cols) * (grid.cell_h + grid.ypadding),
       grid.cell_w, grid.cell_h >>

row_major_before(b1, b2) == b1[2] < b2[2] \/ (b1[2] = b2[2] /\ b1[1] < b2[1])

\* C3: the control emitted at position index i (the number of non-group specs
\* of its page's chunk before it) has the bounds of cell i; a blank row takes an
\* index and emits no control; on one page an earlier control's cell is
\* strictly earlier in row-major order
C3_GridPlacement ==
    /\ \A k \in 1..Len(controls) :
          LET e == emitted_from[k] IN
          /\ controls[k].bounds = cell_of(positions_before(chunk_of(e), e.at))
          /\ ~e.spec.is_blank /\ ~e.spec.is_group
    /\ (pc = "spec") => position_idx = positions_before(chunk, spec_i)
    /\ \A k1, k2 \in 1..Len(controls) :
          (k1 < k2 /\ controls[k1].pageId = controls[k2].pageId)
              => row_major_before(controls[k1].bounds, controls[k2].bounds)

\* a control of a second grid row that has a blank row before it on its page
C3_Witness ==
    \E k \in 1..Len(controls) :
        LET e == emitted_from[k] IN
        /\ positions_before(chunk_of(e), e.at) >= grid.cols
        /\ \E j \in 1..(e.at - 1) : chunk_of(e)[j].is_blank

\* the number of non-group specs of a section
section_positions(title) ==
    Cardinality({i \in 1..Len(specs) : specs[i].section = title /\ ~specs[i].is_group})

expected_page_names(title) ==
    LET n == section_positions(title)
        cap == grid.cols * grid.rows
        total == (n + cap - 1) \div cap
    IN  IF n <= cap THEN <<title>>
        ELSE [k \in 1..total |->
                 title \o " (" \o ToString(k) \o "/" \o ToString(total) \o ")"]

RECURSIVE expected_pages(_)
expected_pages(s) ==
    IF s = 0 THEN <<>>
    ELSE expected_pages(s - 1) \o expected_page_names(order(specs)[s])

controls_on_page(p) == Cardinality({k \in 1..Len(controls) : controls[k].pageId = p})

\* C4: a section of n non-group specs gives one page named by its title when
\* n <= cap = C*R and otherwise ceil(n/cap) consecutive pages 'Title (k/total)';
\* page k of a section holds min(cap, n - cap*(k-1)) positions, so every page
\* but the last holds cap and none holds more; 40 controls on the 6x6 grid give
\* two pages of 36 and 4 controls
C4_Pagination ==
    LET cap == grid.cols * grid.rows IN
    /\ (pc = "spec" /\ spec_i > Len(chunk)) =>
          LET n == section_positions(section_title)
              left == n - cap * (chunk_i - 1)
          IN  position_idx = (IF left < cap THEN left ELSE cap)
    /\ (pc = "groups") =>
          /\ [i \in 1..Len(pages) |-> pages[i].name] = expected_pages(Len(order(specs)))
          /\ \A i \in 1..Len(pages) : pages[i].id = i
    /\ (pc = "groups" /\ cap = 36 /\ specs = PlainControls(40)) =>
          /\ Len(pages) = 2
          /\ controls_on_page(1) = 36
          /\ controls_on_page(2) = 4

\* the 40-control section has been laid out on two pages
C4_Witness ==
    /\ pc = "groups"
    /\ grid.cols * grid.rows = 36
    /\ Len(specs) = 40
    /\ Len(pages) = 2
    /\ pages[2].name = "S (2/2)"
    /\ controls_on_page(2) = 4

\* control k is recorded under group `name` of page `page`
member_of(k, page, name) ==
    \E i \in 1..Len(group_controls) :
        /\ group_controls[i].key = <<page, name>>
        /\ InSeq(controls[k].id, group_controls[i].ids)

header_name(h) == IF h.group_id # None THEN h.group_id ELSE h.label

\* the controls placed on control k's page strictly between spec number a of
\* its chunk and control k itself
placed_between(a, k) ==
    {j \in 1..Len(emitted_from) :
        /\ emitted_from[j].sec = emitted_from[k].sec
        /\ emitted_from[j].chunk = emitted_from[k].chunk
        /\ a < emitted_from[j].at /\ emitted_from[j].at < emitted_from[k].at}

span_headers_before(k) ==
    LET e == emitted_from[k] IN
    {a \in 1..(e.at - 1) : chunk_of(e)[a].is_group /\ chunk_of(e)[a].group_size > 0}

\* C5 as stated: each of the next N controls placed on the page after a header
\* of span N > 0 is recorded as a member of the header's group, whatever
\* explicit tag it carries
C5_SpanIgnoresTags ==
    \A k \in 1..Len(controls) :
        \A a \in span_headers_before(k) :
            LET h == chunk_of(emitted_from[k])[a] IN
            Cardinality(placed_between(a, k)) < h.group_size
                => member_of(k, controls[k].pageId, header_name(h))

\* the group a placed control belongs to: the one its explicit tag names, else
\* the latest span header before it on the page while fewer than N untagged
\* controls have been placed since that header
expected_group(k) ==
    LET e == emitted_from[k]
        hs == span_headers_before(k)
    IN  IF e.spec.group_id # None THEN e.spec.group_id
        ELSE IF hs = {} THEN None
        ELSE LET a == CHOOSE x \in hs : \A y \in hs : y <= x
                 used == Cardinality({j \in placed_between(a, k) :
                                         emitted_from[j].spec.group_id = None})
             IN  IF used < chunk_of(e)[a].group_size
                 THEN header_name(chunk_of(e)[a]) ELSE None

\* C5, amended: after a header of span N > 0 the untagged controls placed next
\* on the page are recorded as its members until N of them are, a later span
\* header takes over or the page ends; a control with an explicit tag is
\* recorded under the group its tag names and is not counted against N; a
\* control is recorded under no other group; the header takes no grid cell
C5_SpanMembership ==
    /\ \A k \in 1..Len(controls) :
          /\ expected_group(k) # None
                => member_of(k, controls[k].pageId, expected_group(k))
          /\ \A i \in 1..Len(group_controls) :
                InSeq(controls[k].id, group_controls[i].ids)
                    => group_controls[i].key = <<controls[k].pageId, expected_group(k)>>
    /\ (pc = "spec") => position_idx = Cardinality({j \in 1..(spec_i - 1) :
                                                       ~chunk[j].is_group})

\* an untagged member of a span group placed after a control that sits inside
\* the span but is tagged for another group
C5_Witness ==
    \E k \in 1..Len(controls) :
        /\ emitted_from[k].spec.group_id = None
        /\ expected_group(k) = "g"
        /\ member_of(k, controls[k].pageId, "g")
        /\ \E a \in span_headers_before(k) : \E j \in placed_between(a, k) :
              /\ emitted_from[j].spec.group_id = "h"
              /\ member_of(j, controls[j].pageId, "h")
              /\ Cardinality(placed_between(a, k)) >= chunk_of(emitted_from[k])[a].group_size

box_contains(b, c) ==
    /\ b[1] <= c[1] /\ b[2] <= c[2]
    /\ c[1] + c[3] <= b[1] + b[3]
    /\ c[2] + c[4] <= b[2] + b[4]

\* C6: the bounding box of every emitted group contains the bounding box of
\* each of its member controls
C6_GroupBoxEnclosesMembers ==
    \A g \in 1..Len(groups) :
        \A i \in 1..Len(group_controls[g].ids) :
            box_contains(groups[g].bounds, control_by_id(group_controls[g].ids[i]).bounds)

-----------------------------------------------------------------------------
\* Properties of the classifier and of the emitted messages

control_specs == {i \in 1..Len(specs) : ~specs[i].is_group /\ ~specs[i].is_blank}

\* the trimmed, case-folded labels of two choices are one of the on/off pairs
on_off_pair(choices) ==
    LET a == lower_strip(choices[1][2])
        b == lower_strip(choices[2][2])
    IN  \E p \in { <<"on", "off">>, <<"play", "pause">>, <<"enable", "disable">>,
                   <<"enabled", "disabled">>, <<"yes", "no">>, <<"true", "false">> } :
            <<a, b>> = p \/ <<b, a>> = p

expected_kind(s) ==
    IF s.envelope_type # None
    THEN (IF s.envelope_type = "ADR" THEN "adr" ELSE "adsr")
    ELSE IF Len(s.choices) = 2 /\ on_off_pair(s.choices) THEN "pad"
    ELSE IF Len(s.choices) > 0 THEN "list"
    ELSE "fader"

\* C7: control_type gives the lower-cased envelope kind when the spec has one,
\* choices or not; otherwise "pad" exactly for two choices whose trimmed,
\* case-folded labels are an on/off pair; otherwise "list" with any choices;
\* otherwise "fader"; and the emitted control carries that type
C7_ControlKind ==
    /\ \A i \in control_specs : control_type(specs[i]) = expected_kind(specs[i])
    /\ \A k \in 1..Len(controls) : controls[k].type = expected_kind(emitted_from[k].spec)

\* a pad whose labels need trimming and case folding has been emitted
C7_Witness ==
    \E k \in 1..Len(controls) :
        /\ controls[k].type = "pad"
        /\ emitted_from[k].spec.envelope_type = None
        /\ emitted_from[k].spec.choices[1][2] = "ON"
        /\ emitted_from[k].spec.choices[2][2] = " OFF "

\* the mode table as C8 states it
stated_mode(s) ==
    LET kind == expected_kind(s) IN
    IF s.mode # None THEN s.mode
    ELSE IF kind = "pad" THEN "toggle"
    ELSE IF kind \in {"list", "adsr", "adr"} THEN "default"
    ELSE IF s.min_val < 0 /\ s.choices = <<>> THEN "bipolar"
    ELSE "unipolar"

assigned_mode(s) ==
    LET kind == expected_kind(s) IN
    IF s.mode # None THEN s.mode
    ELSE IF kind = "pad" THEN "toggle"
    ELSE IF kind \in {"list", "adsr", "adr"} THEN "default"
    ELSE "unipolar"

value_controls == {k \in 1..Len(controls) : controls[k].type \in {"list", "fader", "adsr", "adr"}}

rows_done == {i \in 1..Len(rows) : i < row_i}

\* a control cell that is one prefix letter followed by a parameter number
is_prefix_cell(cell) ==
    /\ Len(cell) >= 2
    /\ char_upper(cell[1]) \in {"C", "N", "P", "S"}
    /\ all_digits(SubSeq(cell, 2, Len(cell)))

\* C10: a row whose control cell is a prefix letter followed by a parameter
\* number (N100, C200, P<n>, S<n>, either letter case) and whose label is not
\* empty is parsed into a real control: not a group header, not a blank, not
\* dropped, with the message kind of the letter and that parameter number
C10_PrefixRow ==
    \A i \in rows_done :
        LET cell == pick(rows[i], "CC")
        IN  (is_prefix_cell(cell) /\ pick(rows[i], "Label") # <<>>) =>
                \E j \in 1..Len(specs) :
                    /\ spec_row[j] = i
                    /\ ~specs[j].is_group
                    /\ ~specs[j].is_blank
                    /\ specs[j].msg_type = char_upper(cell[1])
                    /\ specs[j].cc = <<dec_value(SubSeq(cell, 2, Len(cell)))>>

-----------------------------------------------------------------------------
\* Properties of the overlay table

\* the emitted controls that came from a spec with choices
choice_controls == {k \in 1..Len(controls) : emitted_from[k].spec.choices # <<>>}

\* the emitted list controls
list_controls == {k \in 1..Len(controls) : controls[k].type = "list"}

has_overlay(k) == "overlayId" \in DOMAIN controls[k].values[1]

overlay_of(k) == controls[k].values[1].overlayId

\* ids are 1, 2, 3, ... and no two entries hold the same item list
overlays_well_formed ==
    /\ \A i \in 1..Len(overlays) : overlays[i].id = i
    /\ \A i, j \in 1..Len(overlays) : overlays[i].items = overlays[j].items => i = j

\* ids follow the order of first appearance among the controls of K
first_appearance_order(K) ==
    \A k1, k2 \in K :
        (k1 < k2 /\ overlay_of(k1) > overlay_of(k2)) =>
            \E k0 \in K : k0 < k1 /\ overlay_of(k0) = overlay_of(k2)

\* C12, as stated: any two control specs with choices have the same overlay id
\* when their ordered (value, label) lists are identical and different ids
\* when the lists differ; ids are 1, 2, 3, ... in order of first appearance;
\* the overlays table holds no item list twice
C12_OverlayInterningAsStated ==
    pc = "preset" =>
        /\ \A k \in choice_controls : has_overlay(k)
        /\ \A k1, k2 \in choice_controls :
               (has_overlay(k1) /\ has_overlay(k2)) =>
                   (overlay_of(k1) = overlay_of(k2)
                        <=> emitted_from[k1].spec.choices = emitted_from[k2].spec.choices)
        /\ overlays_well_formed

\* C12, amended: the overlay table interns the choice lists of the list
\* controls: two list controls have the same overlay id exactly when their
\* ordered lists are identical, each id names the overlay that holds the
\* control's list, ids are 1, 2, 3, ... in order of first appearance, no item
\* list occurs twice and every entry is used; a pad takes no overlay, its two
\* choices are emitted as offValue and onValue only
C12_OverlayInterning ==
    pc = "preset" =>
        /\ \A k \in list_controls :
               /\ has_overlay(k)
               /\ overlay_of(k) \in 1..Len(overlays)
               /\ overlays[overlay_of(k)].items = emitted_from[k].spec.choices
        /\ \A k1, k2 \in list_controls :
               overlay_of(k1) = overlay_of(k2)
                   <=> emitted_from[k1].spec.choices = emitted_from[k2].spec.choices
        /\ first_appearance_order(list_controls)
        /\ overlays_well_formed
        /\ \A i \in 1..Len(overlays) : \E k \in list_controls : overlay_of(k) = i
        /\ \A k \in 1..Len(controls) : controls[k].type # "list" => ~has_overlay(k)

\* three list controls, the first and the third of one list, and a pad: two
\* overlays, the repeated list under one id
C12_Witness ==
    /\ pc = "preset"
    /\ Len(overlays) = 2
    /\ \E k1, k2, k3 \in list_controls :
           /\ k1 < k2 /\ k2 < k3
           /\ overlay_of(k1) = 1 /\ overlay_of(k2) = 2 /\ overlay_of(k3) = 1
    /\ \E k \in 1..Len(controls) : controls[k].type = "pad"

-----------------------------------------------------------------------------
\* Properties of the envelope expansion

\* the component names of an envelope kind, as the format fixes them
components_of(kind) ==
    IF kind = "adsr" THEN <<"attack", "decay", "sustain", "release">>
    ELSE <<"attack", "decay", "release">>

is_envelope_spec(s) == ~s.is_group /\ ~s.is_blank /\ s.envelope_type # None

\* an envelope spec whose parameter numbers match its kind in number
is_matched_envelope(s) ==
    /\ is_envelope_spec(s)
    /\ s.cc_is_list
    /\ Len(s.cc) = Len(components_of(lower_strip(s.envelope_type)))

is_mismatched_envelope(s) == is_envelope_spec(s) /\ ~is_matched_envelope(s)

\* the shape of the control emitted for a matched envelope, but for the
\* parameter numbers
envelope_shape(k) ==
    LET s == emitted_from[k].spec
        c == controls[k]
        names == components_of(lower_strip(s.envelope_type))
    IN  /\ c.type = lower_strip(s.envelope_type)
        /\ c.bounds = cell_of(positions_before(chunk_of(emitted_from[k]), emitted_from[k].at))
        /\ Len(c.values) = Len(names)
        /\ \A i \in 1..Len(names) :
               /\ c.values[i].id = names[i]
               /\ c.values[i].min = s.min_val
               /\ c.values[i].max = s.max_val
               /\ IF s.default_value = <<>>
                  THEN "defaultValue" \notin DOMAIN c.values[i]
                  ELSE /\ "defaultValue" \in DOMAIN c.values[i]
                       /\ c.values[i].defaultValue = s.default_value[1]
        /\ c.inputs = [i \in 1..Len(names) |-> [potId |-> i, valueId |-> names[i]]]

\* one control for every matched envelope spec, none for any other
one_control_each ==
    /\ Cardinality({k \in 1..Len(controls) : controls[k].type \in {"adsr", "adr"}})
           = Cardinality({i \in 1..Len(specs) : is_matched_envelope(specs[i])})
    /\ \A k \in 1..Len(controls) :
           controls[k].type \in {"adsr", "adr"} <=> is_matched_envelope(emitted_from[k].spec)
    /\ \A k1, k2 \in 1..Len(controls) : emitted_from[k1] = emitted_from[k2] => k1 = k2

converted_specs ==
    SelectSeq(specs, LAMBDA s : ~s.is_group /\ ~s.is_blank /\ ~is_mismatched_envelope(s))

\* C14: an envelope spec whose number of parameter numbers does not match its
\* kind (or that has a single number) is skipped: no control is emitted for
\* it, a warning is emitted, its grid position is still consumed, and every
\* other spec is converted as if the bad spec were a blank row
C14_MismatchSkippedWithWarning ==
    pc = "preset" =>
        /\ \A k \in 1..Len(controls) : ~is_mismatched_envelope(emitted_from[k].spec)
        /\ \A i \in 1..Len(specs) :
               is_mismatched_envelope(specs[i]) =>
                   \E w \in 1..Len(warnings) : warnings[w] = specs[i].label
        /\ Len(controls) = Len(converted_specs)
        /\ \A k \in 1..Len(controls) :
               /\ emitted_from[k].spec = converted_specs[k]
               /\ controls[k].id = k
               /\ controls[k].bounds
                      = cell_of(positions_before(chunk_of(emitted_from[k]), emitted_from[k].at))

-----------------------------------------------------------------------------
\* Properties of the group names

Letters == <<"A", "B", "C", "D", "E", "F", "G">>

\* how many groups of the preset before group gi have its name
occurrences_before(gi) ==
    Cardinality({j \in 1..(gi - 1) : groups[j].name = groups[gi].name})

occurrences(gi) == Cardinality({j \in 1..Len(groups) : groups[j].name = groups[gi].name})

expected_group_name(gi) ==
    IF occurrences(gi) = 1 \/ occurrences_before(gi) = 0 THEN groups[gi].name
    ELSE groups[gi].name \o " " \o Letters[occurrences_before(gi)]

\* the group rows of the reconstructed document, page by page
group_rows_out ==
    {<<p, i>> \in (1..Len(sections)) \X (1..(Len(controls) + Len(groups))) :
        i <= Len(sections[p].controls) /\ "is_group" \in DOMAIN sections[p].controls[i]}

\* the preset lists its groups in page order
groups_in_page_order ==
    \A g1, g2 \in 1..Len(groups) : g1 < g2 => groups[g1].pageId <= groups[g2].pageId

\* C15: a group name that occurs more than once in the document keeps its
\* first occurrence unsuffixed and gets 'Name A', 'Name B', ... on the
\* following ones, pages taken in page-id order and groups in document order;
\* a name that occurs once is unchanged; the occurrences are counted over the
\* whole document, not per page
C15_DuplicateGroupNames ==
    pc = "grouped" =>
        /\ groups_in_page_order
        /\ Cardinality(group_rows_out) = Len(groups)
        /\ \A gi \in 1..Len(groups) :
               \E r \in group_rows_out :
                   /\ rev_page_ids[r[1]] = groups[gi].pageId
                   /\ sections[r[1]].controls[r[2]]._bounds = groups[gi].bounds
                   /\ sections[r[1]].controls[r[2]].label = expected_group_name(gi)

\* three groups named OSC, two on the first page and one on the second, come
\* back as OSC, OSC A and OSC B
C15_Witness ==
    /\ pc = "grouped"
    /\ \E r1, r2, r3 \in group_rows_out :
           /\ sections[r1[1]].controls[r1[2]].label = "OSC"
           /\ sections[r2[1]].controls[r2[2]].label = "OSC A"
           /\ sections[r3[1]].controls[r3[2]].label = "OSC B"
           /\ r1[1] = 1 /\ r2[1] = 1 /\ r3[1] = 2

-----------------------------------------------------------------------------
\* Properties of the colours

\* the valid colour row i declares, None when it declares none
declared_color(i) == parse_color(rows[i]["Color"])

\* the most recent valid colour declared by a row at or before row i
latest_color(i) ==
    LET D == {j \in 1..i : declared_color(j) # None}
    IN  IF D = {} THEN None
        ELSE declared_color(CHOOSE j \in D : \A d \in D : d <= j)

header_of(j) ==
    LET H == {h \in 1..(j - 1) : specs[h].is_group /\ specs[h].group_id = specs[j].group_id}
    IN  IF H = {} THEN 0 ELSE CHOOSE h \in H : \A g \in H : g <= h

\* C18: an explicit member of a group that declares no colour of its own gets
\* the colour of its group's header row, also when a row between the header
\* and the member declared another colour; a member with a colour of its own
\* keeps it
C18_GroupColorInheritance ==
    \A j \in 1..Len(specs) :
        (~specs[j].is_group /\ specs[j].group_id # None /\ header_of(j) # 0) =>
            IF declared_color(spec_row[j]) # None
            THEN specs[j].color = declared_color(spec_row[j])
            ELSE specs[j].color = specs[header_of(j)].color

-----------------------------------------------------------------------------
\* Properties of the way back to markdown

\* the controls of the second parse that are no group and no blank rows
real_specs2 == SelectSeq(specs2, LAMBDA s : ~s.is_group /\ ~s.is_blank)

\* the controls generate_preset wrote for a SysEx spec
sysex_controls == {k \in 1..Len(controls) : emitted_from[k].spec.msg_type = "S"}

\* C11: a control written for a SysEx spec carries no wire content: its
\* message has no parameter number and no min and max; and the markdown
\* generated from the preset, parsed again, gives that control the SysEx
\* message kind
C11_SysExTagOnly ==
    \A k \in sysex_controls :
        /\ \A v \in 1..Len(controls[k].values) :
              /\ "parameterNumber" \notin DOMAIN controls[k].values[v].message
              /\ "min" \notin DOMAIN controls[k].values[v].message
              /\ "max" \notin DOMAIN controls[k].values[v].message
        /\ pc = "reparsed" => /\ k <= Len(real_specs2)
                              /\ real_specs2[k].label = controls[k].name
                              /\ real_specs2[k].msg_type = "S"

\* the items of the p-th table in the order generate_markdown writes them, and
\* the colour of an item, None for a blank placeholder
items_written(p) == section_items(sections[p].controls)

item_color(it) == IF "blank" \in DOMAIN it THEN None ELSE it.color

\* the colour of the latest item up to the j-th that has a colour of its own
color_in_force(p, j) ==
    LET own == {i \in 1..j : item_color(items_written(p)[i]) # None}
    IN  IF own = {} THEN None
        ELSE item_color(items_written(p)[CHOOSE i \in own : \A k \in own : k <= i])

\* C17: in every table generate_markdown writes, the Color cell of a control
\* or group row is the colour of the latest item of the section, up to that
\* row, that has a colour of its own: an item without one is written with the
\* current colour
C17_StickyColorWriting ==
    \A p \in 1..Len(md) :
        \A j \in 1..Len(md[p].rows) :
            "blank" \notin DOMAIN items_written(p)[j]
                => md[p].rows[j].Color = color_val(color_in_force(p, j))

\* the rows of the tables before the p-th: every row of a generated table is
\* parsed to one spec, so this is the place of the p-th table in specs2
RECURSIVE rows_before(_)
rows_before(p) == IF p <= 1 THEN 0 ELSE rows_before(p - 1) + Len(md[p - 1].rows)

\* what generate_markdown does instead: it writes every control and group row
\* with the item's own colour, and with an empty Color cell when the item has
\* none, whatever was written before it; read back by parse_controls_from_md,
\* every row has the colour of the latest item of its section, up to that
\* row, that has a colour of its own
OwnColorWritten ==
    /\ \A p \in 1..Len(md) :
          \A j \in 1..Len(md[p].rows) :
              "blank" \notin DOMAIN items_written(p)[j]
                  => md[p].rows[j].Color = color_val(item_color(items_written(p)[j]))
    /\ pc = "reparsed" =>
          \A p \in 1..Len(md) :
              \A j \in 1..Len(md[p].rows) :
                  specs2[rows_before(p) + j].color = color_in_force(p, j)

\* whether the values of a choice list are 0, 1, 2, ...
sequential_from_0(choices) == \A i \in 1..Len(choices) : choices[i][1] = i - 1

\* C19: a choice list of more than two entries whose values are 0, 1, 2, ...,
\* written by format_choices and read by parse_choices with the control's
\* minimum, comes back as the same (value, label) pairs in the same order
C19_ChoiceRoundTrip ==
    (/\ pc = "choices_done"
     /\ Len(choices_arg) > 2
     /\ sequential_from_0(choices_arg))
        => choices_out = choices_arg

\* the controls of the first parse that are no group and no blank rows
real_specs == SelectSeq(specs, LAMBDA s : ~s.is_group /\ ~s.is_blank)

\* C20: after parse -> generate_preset -> generate_markdown -> parse, every
\* control of the first parse that is no group and no blank row, a pad of two
\* choices included, has a control of the second parse at its place, with the
\* same label and the same default value
C20_DefaultsRoundTrip ==
    pc = "reparsed" =>
        \A k \in 1..Len(real_specs) :
            /\ k <= Len(real_specs2)
            /\ real_specs2[k].label = real_specs[k].label
            /\ real_specs2[k].default_value = real_specs[k].default_value

-----------------------------------------------------------------------------
\* Properties of the round trip markdown -> preset -> markdown -> specs

\* C21: after parse -> generate_preset -> generate_markdown -> parse, every
\* control of the first parse that is no group and no blank row has a control
\* of the second parse at its place, with the same label and the same message
\* kind: CC stays CC, NRPN stays NRPN
C21_MessageTypesRoundTrip ==
    pc = "reparsed" =>
        \A k \in 1..Len(real_specs) :
            /\ k <= Len(real_specs2)
            /\ real_specs2[k].label = real_specs[k].label
            /\ real_specs2[k].msg_type = real_specs[k].msg_type

\* the same for the controls sent as CC: generate_markdown writes the control
\* number alone, which is the notation of a CC
CCStaysCC ==
    pc = "reparsed" =>
        \A k \in 1..Len(real_specs) :
            real_specs[k].msg_type = "C" =>
                /\ k <= Len(real_specs2)
                /\ real_specs2[k].label = real_specs[k].label
                /\ real_specs2[k].msg_type = "C"

\* the number of blank placeholder rows of a parse
blank_count(ss) == Len(SelectSeq(ss, LAMBDA s : s.is_blank))

\* the grid cells of the controls of a parse, in order: the number of rows
\* before each that take a cell (every row but the group rows)
cells_taken(ss) ==
    LET real == {i \in 1..Len(ss) : ~ss[i].is_group /\ ~ss[i].is_blank}
    IN  [k \in 1..Cardinality(real) |->
            LET i == CHOOSE i \in real : Cardinality({j \in real : j <= i}) = k
            IN  Cardinality({j \in 1..(i - 1) : ~ss[j].is_group})]

\* C22: after parse -> generate_preset -> generate_markdown -> parse, the
\* second parse has as many blank placeholder rows as the first, and every
\* control has the grid cell it had
C22_BlankRowsRoundTrip ==
    pc = "reparsed" =>
        /\ blank_count(specs2) = blank_count(specs)
        /\ cells_taken(specs2) = cells_taken(specs)

\* the number of group header rows of a parse
group_header_count(ss) == Len(SelectSeq(ss, LAMBDA s : s.is_group))

\* C23: the preset generate_preset builds has as many groups as the parsed
\* document has group header rows, and the markdown generated from the preset,
\* parsed again, has that number of group header rows
C23_GroupCountPreserved ==
    /\ pc \in {"preset", "revpage", "revgroup", "grouped", "reparsed"}
          => Len(groups) = group_header_count(specs)
    /\ pc = "reparsed" => group_header_count(specs2) = group_header_count(specs)

\* the same for a document whose headers are `osc | OSC | 1` alone, each
\* followed at once by a control: one group in the preset and one header row
\* in the second parse
is_osc_header(s) == s.is_group /\ s.group_id = "osc"

GroupCountOfPlainHeaders ==
    (/\ pc = "reparsed"
     /\ \A i \in 1..Len(specs) :
           specs[i].is_group =>
               /\ is_osc_header(specs[i])
               /\ i < Len(specs) /\ ~specs[i + 1].is_group /\ ~specs[i + 1].is_blank
               /\ \A j \in 1..(i - 1) : ~specs[j].is_group)
        => /\ Len(groups) = group_header_count(specs)
           /\ group_header_count(specs2) = group_header_count(specs)

-----------------------------------------------------------------------------
\* Properties of the preset document: ids, bounding boxes, completion

\* iter_numeric_ids: the places of the preset that carry a numeric id (the ids
\* of the values of a control are strings), and the id at a place
id_paths ==
    {<<"pages", i>> : i \in 1..Len(pages)}
        \cup {<<"devices", i>> : i \in 1..Len(devices_list(meta))}
        \cup {<<"overlays", i>> : i \in 1..Len(overlays)}
        \cup {<<"groups", i>> : i \in 1..Len(groups)}
        \cup {<<"controls", i>> : i \in 1..Len(controls)}

id_at(p) ==
    CASE p[1] = "pages" -> pages[p[2]].id
      [] p[1] = "devices" -> devices_list(meta)[p[2]].id
      [] p[1] = "overlays" -> overlays[p[2]].id
      [] p[1] = "groups" -> groups[p[2]].id
      [] p[1] = "controls" -> controls[p[2]].id

\* C24: in the preset generate_preset returns no numeric id is carried by two
\* elements of the document (pages, devices, overlays, groups, controls):
\* validate_id_uniqueness reports no collision
C24_IdsGloballyUnique ==
    pc = "preset" =>
        \A p \in id_paths : \A q \in id_paths : p # q => id_at(p) # id_at(q)

\* the ids are unique among the elements of one kind, and, for the numbers of
\* controls of the inputs, no group has the id of a control
IdsUniquePerKind ==
    /\ \A p \in id_paths : \A q \in id_paths :
          (p # q /\ p[1] = q[1]) => id_at(p) # id_at(q)
    /\ \A g \in 1..Len(groups) : \A k \in 1..Len(controls) : groups[g].id # controls[k].id

\* validate_json.rect_intersect: boxes that only touch do not intersect
rect_intersect(a, b) ==
    ~(\/ a[1] + a[3] <= b[1] \/ b[1] + b[3] <= a[1]
      \/ a[2] + a[4] <= b[2] \/ b[2] + b[4] <= a[2])

\* find_overlaps among the elements of one kind on one page
overlaps(elems) ==
    {<<i, j>> \in (1..Len(elems)) \X (1..Len(elems)) :
        /\ i < j
        /\ elems[i].pageId = elems[j].pageId
        /\ rect_intersect(elems[i].bounds, elems[j].bounds)}

\* C25: in the preset generate_preset returns, for a grid of positive cell
\* size and non-negative gaps, no two controls of a page have intersecting
\* bounding boxes and no two groups of a page have intersecting bounding boxes
C25_NoSameKindOverlap ==
    pc = "preset" => overlaps(controls) = {} /\ overlaps(groups) = {}

\* the controls alone: no two controls of a page intersect
ControlsDisjoint == overlaps(controls) = {}

\* C26: the conversion never aborts: whatever the ControlSpecs, the metadata
\* map and the verbose flag, generate_preset is never left with an exception
C26_NeverAborts == pc # "raised"

\* without verbose, on a grid with at least one column, it is never left
\* with one, and it gets to its return
QuietRunReturns == (~verbose /\ grid.cols > 0) => raised = None

-----------------------------------------------------------------------------
\* Properties of group_controls_by_page: span or tags, names

\* the candidates of the group at hand: the controls of the page that its box
\* lies over
candidates == matching_controls(page_groups[rg_i].bounds)

y_of(i) == controls_with_bounds[i].bounds[2]

\* every candidate has the minimum y of the candidates
all_at_min_y == \A i \in candidates : \A j \in candidates : y_of(i) <= y_of(j)

\* the candidates stand at consecutive places of the page's controls sorted by (y, x)
consecutive_places ==
    \A i \in candidates : \A j \in candidates :
        \A k \in i..j : k \in candidates

\* the rows of ordered_controls' are those of ordered_controls and one group
\* row of this name and size
emits_group_row(name, size) ==
    /\ Len(ordered_controls') = Len(ordered_controls) + 1
    /\ \E p \in 1..Len(ordered_controls') :
          /\ is_group_row(ordered_controls'[p])
          /\ ordered_controls'[p].label = name
          /\ ordered_controls'[p].group_size = size
          /\ \A q \in 1..Len(ordered_controls) :
                ordered_controls[q] = ordered_controls'[IF q < p THEN q ELSE q + 1]

tags_exactly_candidates(name) ==
    /\ DOMAIN control_to_group' = DOMAIN control_to_group \cup candidates
    /\ \A i \in candidates : control_to_group'[i] = name
    /\ \A i \in DOMAIN control_to_group \ candidates :
          control_to_group'[i] = control_to_group[i]

\* C27: a group with at least one candidate becomes a span group of as many
\* controls as it has candidates, no control tagged, exactly when every
\* candidate has the minimum y of the candidates and the candidates stand at
\* consecutive places of the page's controls sorted by (y, x); in every other
\* case it becomes a group of size 0 and the candidates, and only they, are
\* tagged with its name
C27_CompactSpanIffContiguous ==
    [][ (pc = "revgroup" /\ rg_i' = rg_i + 1 /\ candidates # {}) =>
          LET name == get_unique_group_name(page_groups[rg_i].name)
          IN  IF all_at_min_y /\ consecutive_places
              THEN /\ emits_group_row(name, Cardinality(candidates))
                   /\ control_to_group' = control_to_group
              ELSE /\ emits_group_row(name, 0)
                   /\ tags_exactly_candidates(name) ]_vars

\* of three controls in a row the first and the third, which stand apart, have
\* been tagged by a group of size 0, and a span group of one control has been
\* written on the same page
C27_Witness ==
    /\ pc = "grouped"
    /\ Len(sections) = 1
    /\ LET cs == sections[1].controls
           tagged == {p \in 1..Len(cs) : ~is_group_row(cs[p]) /\ "group_id" \in DOMAIN cs[p]}
           plain == {p \in 1..Len(cs) : ~is_group_row(cs[p]) /\ "group_id" \notin DOMAIN cs[p]}
       IN  /\ \E p \in 1..Len(cs) : is_group_row(cs[p]) /\ cs[p].group_size = 0
           /\ \E p \in 1..Len(cs) : is_group_row(cs[p]) /\ cs[p].group_size = 1
           /\ \E p \in tagged : \E q \in plain : \E r \in tagged : p < q /\ q < r

-----------------------------------------------------------------------------
\* Properties of the tables generate_markdown writes for span groups

\* a control at bounds b is a candidate of the group box gb
lies_under(b, gb) ==
    IF gb[4] <= 20
    THEN /\ b[1] >= gb[1] /\ b[1] + b[3] <= gb[1] + gb[3] + 20
         /\ b[2] > gb[2] /\ b[2] < gb[2] + 100
    ELSE /\ b[1] >= gb[1] /\ b[1] + b[3] <= gb[1] + gb[3]
         /\ b[2] >= gb[2] /\ b[2] + b[4] <= gb[2] + gb[4]

\* the controls of the p-th section that were taken for members of group row g,
\* in the order of the page
inferred_members(p, g) ==
    SelectSeq(control_rows(sections[p].controls), LAMBDA c : lies_under(c._bounds, g._bounds))

is_control_item(it) == "blank" \notin DOMAIN it /\ ~is_group_row(it)

\* C28: in every table generate_markdown writes, a span group row of count N
\* stands immediately before its first member: the N rows that follow it are
\* control rows, and they are the N controls taken for its members
C28_SpanRowPrecedesMembers ==
    \A p \in 1..Len(md) :
        LET W == items_written(p) IN
        \A q \in 1..Len(W) :
            (is_group_row(W[q]) /\ W[q].group_size > 0) =>
                LET M == inferred_members(p, W[q]) IN
                /\ Len(M) = W[q].group_size
                /\ q + Len(M) <= Len(W)
                /\ \A k \in 1..Len(M) :
                      /\ is_control_item(W[q + k])
                      /\ W[q + k]._bounds = M[k]._bounds

\* a span group that opens its grid row, alone in it, is followed by its members
SpanRowAloneInGridRow ==
    \A p \in 1..Len(md) :
        LET W == items_written(p) IN
        \A q \in 1..Len(W) :
            (/\ is_group_row(W[q]) /\ W[q].group_size > 0
             /\ q < Len(W) /\ is_control_item(W[q + 1])
             /\ lies_under(W[q + 1]._bounds, W[q]._bounds)) =>
                LET M == inferred_members(p, W[q]) IN
                /\ q + Len(M) <= Len(W)
                /\ \A k \in 1..Len(M) :
                      /\ is_control_item(W[q + k])
                      /\ W[q + k]._bounds = M[k]._bounds

-----------------------------------------------------------------------------
\* Properties of the round trip of pads

\* the controls of the first parse that generate_preset writes as pads
pad_specs == {k \in 1..Len(real_specs) : control_type(real_specs[k]) = "pad"}

\* the (value, label) pairs of a choice list
choice_pairs(choices) == {choices[i] : i \in 1..Len(choices)}

\* C29: after parse -> generate_preset -> generate_markdown -> parse, a control
\* of two on/off choices has the same label at the same value as before (a
\* control declared 0=On, 127=Off comes back as 0=On, 127=Off) and the same
\* min and max
C29_PadLabelsKeepValues ==
    pc = "reparsed" =>
        \A k \in pad_specs :
            /\ k <= Len(real_specs2)
            /\ choice_pairs(real_specs2[k].choices) = choice_pairs(real_specs[k].choices)
            /\ real_specs2[k].min_val = real_specs[k].min_val
            /\ real_specs2[k].max_val = real_specs[k].max_val

\* the values of the two choices come back, whatever their labels
PadValuesKept ==
    pc = "reparsed" =>
        \A k \in pad_specs :
            /\ k <= Len(real_specs2)
            /\ {c[1] : c \in choice_pairs(real_specs2[k].choices)}
                  = {c[1] : c \in choice_pairs(real_specs[k].choices)}

-----------------------------------------------------------------------------
\* Properties of the names group_controls_by_page gives the groups

\* C30: after group_controls_by_page has suffixed the repeated names, no two
\* group rows of the whole document carry the same name, whatever the names
\* of the preset's groups
C30_GroupNamesUnique ==
    pc = "grouped" =>
        \A a \in group_rows_out : \A b \in group_rows_out :
            a # b => sections[a[1]].controls[a[2]].label # sections[b[1]].controls[b[2]].label

\* some group of the preset has the name that a suffix makes of another's
suffixed_name_taken ==
    \E g \in 1..Len(groups) : \E h \in 1..Len(groups) : \E l \in 1..Len(Letters) :
        groups[g].name = groups[h].name \o " " \o Letters[l]

\* unless a group already has such a name, the names are unique
GroupNamesUniqueUnlessTaken ==
    (pc = "grouped" /\ ~suffixed_name_taken) =>
        \A a \in group_rows_out : \A b \in group_rows_out :
            a # b => sections[a[1]].controls[a[2]].label # sections[b[1]].controls[b[2]].label

====
